---- MODULE Spec2Model ----
(***************************************************************************)
(* Model of the citation / reference checker (src/ref-check/ref_check.py). *)
(*                                                                         *)
(* Texts are strings; a character is a string of length one.  The regular  *)
(* expressions of the source are kept as data and matched by a             *)
(* backtracking matcher with the priority order of Python's re module, so  *)
(* that a match, its groups and its offsets are those the code computes.   *)
(*                                                                         *)
(* Characters outside ASCII cannot be written in a string here.  Each of   *)
(* the eleven that the normalizer treats has an ASCII stand-in (LSQUO ..   *)
(* ZWSP below) that occurs nowhere else in the texts and in no pattern.    *)
(*                                                                         *)
(* A document is the sequence of the texts of its paragraphs; documents    *)
(* hold no tables, so the body paragraphs are those before the heading.    *)
(***************************************************************************)
EXTENDS Integers, Sequences, FiniteSets, TLC

(***************************************************************************)
(* Characters and Python's str methods                                     *)
(***************************************************************************)
UpperStr == "ABCDEFGHIJKLMNOPQRSTUVWXYZ"
LowerStr == "abcdefghijklmnopqrstuvwxyz"
DigitStr == "0123456789"

Ch(t, i) == SubSeq(t, i, i)

CharsOf(s) == {Ch(s, i) : i \in 1..Len(s)}

UpperSet == CharsOf(UpperStr)
LowerSet == CharsOf(LowerStr)
DigitSet == CharsOf(DigitStr)
SpaceSet == {" ", "\n", "\t"}
\* \w of the re module, over the characters of the model
WordSet  == UpperSet \cup LowerSet \cup DigitSet \cup {"_"}

LSQUO    == "@"     \* U+2018 left single quotation mark
RSQUO    == "#"     \* U+2019 right single quotation mark
LDQUO    == "<"     \* U+201C left double quotation mark
RDQUO    == ">"     \* U+201D right double quotation mark
HYPHEN   == "="     \* U+2010 hyphen
NBHYPHEN == "+"     \* U+2011 non-breaking hyphen
FIGDASH  == "^"     \* U+2012 figure dash
NDASH    == "~"     \* U+2013 en dash
RLM      == "|"     \* U+200F right-to-left mark
LRM      == "!"     \* U+200E left-to-right mark
ZWSP     == "%"     \* U+200B zero width space

LowerCh(c) ==
    IF c \in UpperSet
    THEN Ch(LowerStr, CHOOSE i \in 1..Len(UpperStr) : Ch(UpperStr, i) = c)
    ELSE c

UpperCh(c) ==
    IF c \in LowerSet
    THEN Ch(UpperStr, CHOOSE i \in 1..Len(LowerStr) : Ch(LowerStr, i) = c)
    ELSE c

RECURSIVE MapLower(_)
MapLower(s) ==
    IF Len(s) <= 1 THEN LowerCh(s)
    ELSE LET h == Len(s) \div 2 IN
         MapLower(SubSeq(s, 1, h)) \o MapLower(SubSeq(s, h + 1, Len(s)))

\* str.lower()
lower(s) == MapLower(s)

\* str.lstrip(chars) / str.rstrip(chars) / str.strip(): chars is a set
MinOf(S) == CHOOSE x \in S : \A y \in S : x <= y

lstripSet(s, cs) ==
    IF s = "" THEN ""
    ELSE LET keep == {k \in 1..Len(s) : Ch(s, k) \notin cs} IN
         IF keep = {} THEN "" ELSE SubSeq(s, MinOf(keep), Len(s))

rstripSet(s, cs) ==
    IF s = "" THEN ""
    ELSE LET keep == {j \in 0..(Len(s) - 1) : Ch(s, Len(s) - j) \notin cs} IN
         IF keep = {} THEN "" ELSE SubSeq(s, 1, Len(s) - MinOf(keep))

strip(s) == lstripSet(rstripSet(s, SpaceSet), SpaceSet)

\* str.find(sub, start): the first index >= from where sub occurs, 0 if none
find(s, sub, from) ==
    IF s = "" THEN 0 ELSE
    LET hits == {k \in from..(Len(s) - Len(sub) + 1) :
                    SubSeq(s, k, k + Len(sub) - 1) = sub}
    IN  IF hits = {} THEN 0 ELSE MinOf(hits)

\* str.split(sep): the sequence of the pieces between occurrences of sep
RECURSIVE split(_, _)
split(s, sep) ==
    IF s = "" THEN <<"">> ELSE
    LET k == find(s, sep, 1) IN
    IF k = 0 THEN <<s>>
    ELSE <<SubSeq(s, 1, k - 1)>> \o split(SubSeq(s, k + Len(sep), Len(s)), sep)

\* str.split(): the maximal runs of non-whitespace characters
RECURSIVE splitWs(_)
splitWs(s) ==
    IF s = "" THEN <<>> ELSE
    LET t == lstripSet(s, SpaceSet) IN
    IF t = "" THEN <<>>
    ELSE LET e == MinOf({k \in 1..Len(t) : Ch(t, k) \in SpaceSet} \cup {Len(t) + 1})
         IN <<SubSeq(t, 1, e - 1)>> \o splitWs(SubSeq(t, e, Len(t)))

\* str.replace(old, new) for a single character old
RECURSIVE replace(_, _, _)
replace(s, old, new) ==
    IF Len(s) <= 1 THEN (IF s = old THEN new ELSE s)
    ELSE LET h == Len(s) \div 2 IN
         replace(SubSeq(s, 1, h), old, new) \o replace(SubSeq(s, h + 1, Len(s)), old, new)

\* sep.join(parts)
RECURSIVE join(_, _)
join(parts, sep) ==
    IF parts = <<>> THEN ""
    ELSE IF Len(parts) = 1 THEN parts[1]
    ELSE parts[1] \o sep \o join(Tail(parts), sep)

(***************************************************************************)
(* Regular expressions (Python's re): a pattern is a record, tagged by t.  *)
(* Match is a backtracking matcher.  Its configuration holds the patterns  *)
(* still to match (todo), the position i, the groups g and the stack bt of *)
(* the choices not yet tried; Step makes one move, and a failure resumes   *)
(* at the choice made last, so the first way found is the one re reports.  *)
(* A group is <<start, end>> (end exclusive), <<0, 0>> if unset.           *)
(***************************************************************************)
Lit(s)         == [t |-> "lit", s |-> s]
LitI(s)        == [t |-> "liti", s |-> s]          \* under re.IGNORECASE
Cls(cs)        == [t |-> "cls", cs |-> cs]         \* [...]
NotCls(cs)     == [t |-> "ncls", cs |-> cs]        \* [^...]
Cat(a)         == [t |-> "cat", a |-> a]
Alt(a)         == [t |-> "alt", a |-> a]           \* a[1] | a[2] | ...
\* greedy {lo,hi}; from: where the iteration before this one began
Rep(r, lo, hi) == [t |-> "rep", r |-> r, lo |-> lo, hi |-> hi, from |-> 0]
Grp(k, r)      == [t |-> "grp", k |-> k, r |-> r]  \* capturing group k
NotAhead(r)    == [t |-> "nla", r |-> r]           \* (?!...)
Bol            == [t |-> "bol"]                    \* ^
Eol            == [t |-> "eol"]                    \* $

\* a negative hi: no upper limit
Star(r) == Rep(r, 0, -1)
Plus(r) == Rep(r, 1, -1)
Opt(r)  == Rep(r, 0, 1)

NoGroups == <<<<0, 0>>, <<0, 0>>, <<0, 0>>>>

\* no match: position 0
Fail == [e |-> 0, g |-> NoGroups]

\* the patterns that match exactly one character
OneChar == {"cls", "ncls"}
IsChar(r, c) == IF r.t = "cls" THEN c \in r.cs ELSE c \notin r.cs

\* how many characters from position i on match r, at most hi if hi >= 0
RunLen(r, hi, txt, i) ==
    LET left == Len(txt) - i + 1
        lim  == IF hi >= 0 /\ hi < left THEN hi ELSE left
        bad  == {j \in 0..(lim - 1) : ~IsChar(r, Ch(txt, i + j))}
    IN  IF bad = {} THEN lim ELSE CHOOSE j \in bad : \A k \in bad : j <= k

\* the last choice left open is tried next; none left: no match
Backtrack(c) ==
    IF c.bt = <<>> THEN [c EXCEPT !.st = "fail"]
    ELSE LET b == c.bt[Len(c.bt)] IN
         [st |-> "run", todo |-> b.todo, i |-> b.i, g |-> b.g,
          bt |-> SubSeq(c.bt, 1, Len(c.bt) - 1)]

\* keep for later: match todo from the present position and groups
Choice(c, todo) == Append(c.bt, [todo |-> todo, i |-> c.i, g |-> c.g])

\* a match is given up after 16^MaxStepsLog moves
MaxStepsLog == 3

RECURSIVE Match(_, _, _, _)
RECURSIVE Run(_, _, _)

Step(c, txt) ==
    IF c.todo = <<>> THEN [c EXCEPT !.st = "ok"]
    ELSE
    LET r    == Head(c.todo)
        rest == Tail(c.todo)
        i    == c.i
    IN
    CASE r.t = "lit" ->
           IF i + Len(r.s) - 1 <= Len(txt) /\ SubSeq(txt, i, i + Len(r.s) - 1) = r.s
           THEN [c EXCEPT !.todo = rest, !.i = i + Len(r.s)] ELSE Backtrack(c)
      [] r.t = "liti" ->
           IF i + Len(r.s) - 1 <= Len(txt)
              /\ lower(SubSeq(txt, i, i + Len(r.s) - 1)) = lower(r.s)
           THEN [c EXCEPT !.todo = rest, !.i = i + Len(r.s)] ELSE Backtrack(c)
      [] r.t \in OneChar ->
           IF i <= Len(txt) /\ IsChar(r, Ch(txt, i))
           THEN [c EXCEPT !.todo = rest, !.i = i + 1] ELSE Backtrack(c)
      [] r.t = "cat" -> [c EXCEPT !.todo = r.a \o rest]
      [] r.t = "alt" ->
           \* the first alternative, the others kept as a choice
           IF r.a = <<>> THEN Backtrack(c)
           ELSE [c EXCEPT !.todo = <<Head(r.a)>> \o rest,
                          !.bt = Choice(c, <<Alt(Tail(r.a))>> \o rest)]
      [] r.t = "rep" /\ r.r.t \in OneChar ->
           \* greedy: the longest run, one character less kept as a choice
           LET k == RunLen(r.r, r.hi, txt, i) IN
           IF k < r.lo THEN Backtrack(c)
           ELSE [c EXCEPT !.todo = rest, !.i = i + k,
                          !.bt = IF k > r.lo
                                 THEN Choice(c, <<Rep(r.r, r.lo, k - 1)>> \o rest)
                                 ELSE c.bt]
      [] r.t = "rep" /\ r.r.t \notin OneChar ->
           \* greedy: one more repetition, none kept as a choice; an
           \* iteration that consumed nothing is not repeated
           IF r.from = i THEN Backtrack(c)
           ELSE IF r.hi = 0
                THEN (IF r.lo = 0 THEN [c EXCEPT !.todo = rest] ELSE Backtrack(c))
           ELSE LET again == [r EXCEPT !.lo = IF r.lo > 0 THEN r.lo - 1 ELSE 0,
                                       !.hi = IF r.hi > 0 THEN r.hi - 1 ELSE r.hi,
                                       !.from = i]
                IN  [c EXCEPT !.todo = <<r.r, again>> \o rest,
                              !.bt = IF r.lo = 0 THEN Choice(c, rest) ELSE c.bt]
      [] r.t = "grp" ->
           [c EXCEPT !.todo = <<r.r, [t |-> "setg", k |-> r.k, s |-> i]>> \o rest]
      [] r.t = "setg" ->
           \* the end of capturing group k, which began at r.s
           [c EXCEPT !.todo = rest, !.g = [c.g EXCEPT ![r.k] = <<r.s, i>>]]
      [] r.t = "nla" ->
           IF Match(<<r.r>>, txt, i, c.g).e = 0
           THEN [c EXCEPT !.todo = rest] ELSE Backtrack(c)
      [] r.t = "bol" -> IF i = 1 THEN [c EXCEPT !.todo = rest] ELSE Backtrack(c)
      [] r.t = "eol" ->
           \* $ matches at the end, and before a newline that ends the text
           IF i = Len(txt) + 1 \/ (i = Len(txt) /\ Ch(txt, i) = "\n")
           THEN [c EXCEPT !.todo = rest] ELSE Backtrack(c)

\* moves from c until the match is settled, 16^n of them at most
Run(c, txt, n) ==
    CASE c.st # "run" -> c
      [] c.st = "run" /\ n = 0 -> Step(c, txt)
      [] OTHER ->
         LET c1  == Run(c, txt, n - 1)
             c2  == Run(c1, txt, n - 1)
             c3  == Run(c2, txt, n - 1)
             c4  == Run(c3, txt, n - 1)
             c5  == Run(c4, txt, n - 1)
             c6  == Run(c5, txt, n - 1)
             c7  == Run(c6, txt, n - 1)
             c8  == Run(c7, txt, n - 1)
             c9  == Run(c8, txt, n - 1)
             c10 == Run(c9, txt, n - 1)
             c11 == Run(c10, txt, n - 1)
             c12 == Run(c11, txt, n - 1)
             c13 == Run(c12, txt, n - 1)
             c14 == Run(c13, txt, n - 1)
             c15 == Run(c14, txt, n - 1)
         IN  CASE c1.st # "run" -> c1
               [] c2.st # "run" -> c2
               [] c3.st # "run" -> c3
               [] c4.st # "run" -> c4
               [] c5.st # "run" -> c5
               [] c6.st # "run" -> c6
               [] c7.st # "run" -> c7
               [] c8.st # "run" -> c8
               [] c9.st # "run" -> c9
               [] c10.st # "run" -> c10
               [] c11.st # "run" -> c11
               [] c12.st # "run" -> c12
               [] c13.st # "run" -> c13
               [] c14.st # "run" -> c14
               [] c15.st # "run" -> c15
               [] OTHER -> Run(c15, txt, n - 1)

\* what a settled configuration says: [e |-> the position after the match,
\* g |-> the groups], or Fail
Outcome(c) ==
    CASE c.st = "ok" -> [e |-> c.i, g |-> c.g]
      [] c.st = "fail" -> Fail

\* the first way the patterns of todo match one after the other from i
Match(todo, txt, i, g) ==
    Outcome(Run([st |-> "run", todo |-> todo, i |-> i, g |-> g, bt |-> <<>>],
                txt, MaxStepsLog))

NoMatch == [s |-> 0, e |-> 0, g |-> NoGroups]

\* the match m found at position i as [s, e, g]; NoMatch if none
AsMatch(m, i) == IF m.e = 0 THEN NoMatch ELSE [s |-> i, e |-> m.e, g |-> m.g]

\* pattern.match at position i
MatchAt(r, txt, i) == AsMatch(Match(<<r>>, txt, i, NoGroups), i)

\* what pattern.match finds at each position of txt
matches_at(r, txt) == [j \in 1..(Len(txt) + 1) |-> MatchAt(r, txt, j)]

\* the non-overlapping matches among ms from position i on, left to right:
\* the leftmost one, then those after its end
RECURSIVE matches_from(_, _)
matches_from(ms, i) ==
    LET at == {j \in i..Len(ms) : ms[j].s # 0} IN
    IF at = {} THEN <<>>
    ELSE LET m == ms[MinOf(at)] IN
         <<m>> \o matches_from(ms, IF m.e > m.s THEN m.e ELSE m.e + 1)

\* re.finditer
re_finditer(r, txt) == matches_from(matches_at(r, txt), 1)

\* the first of the matches ms, NoMatch if there is none
first_match(ms) == IF ms = <<>> THEN NoMatch ELSE ms[1]

\* re.search: the leftmost match
re_search(r, txt) == first_match(re_finditer(r, txt))

\* m.group(k); the empty string stands for None as well
group(txt, m, k) == SubSeq(txt, m.g[k][1], m.g[k][2] - 1)

\* m.group(0)
group0(txt, m) == SubSeq(txt, m.s, m.e - 1)

\* the texts of group 1 of the matches ms
groups_1(txt, ms) == [n \in 1..Len(ms) |-> group(txt, ms[n], 1)]

\* re.findall for a pattern with one group
re_findall(r, txt) == groups_1(txt, re_finditer(r, txt))

\* the text before the match m, all of it if there is none
before_match(txt, m) == IF m.s = 0 THEN txt ELSE SubSeq(txt, 1, m.s - 1)

\* re.match(r, txt)
re_match(r, txt) == MatchAt(r, txt, 1)

\* re.split(r, txt)[0]
re_split_first(r, txt) == before_match(txt, re_search(r, txt))

\* the text without the match m
without_match(txt, m) ==
    IF m.s = 0 THEN txt
    ELSE SubSeq(txt, 1, m.s - 1) \o SubSeq(txt, m.e, Len(txt))

\* re.sub(r, '', txt) for a pattern that matches at most once in txt
re_sub_empty(r, txt) == without_match(txt, re_search(r, txt))

(***************************************************************************)
(* The patterns of ref_check.py                                            *)
(***************************************************************************)
Ws0 == Star(Cls(SpaceSet))                       \* \s*
Ws1 == Plus(Cls(SpaceSet))                       \* \s+
\* [A-Z][a-z]+
Name == Cat(<<Cls(UpperSet), Plus(Cls(LowerSet))>>)
\* [A-Z][a-z]+(?:-[A-Z][a-z]+)?
HName == Cat(<<Name, Opt(Cat(<<Lit("-"), Name>>))>>)
\* \d{4}
D4 == Rep(Cls(DigitSet), 4, 4)
\* \d{4}[a-z]?
Year == Cat(<<D4, Opt(Cls(LowerSet))>>)
\* \d{4}[a-z]?(?:,\s*\d{4}[a-z]?)*
YearList == Cat(<<Year, Star(Cat(<<Lit(","), Ws0, Year>>))>>)
\* (?:\s+et\s+al\.?)?
EtAlOpt == Opt(Cat(<<Ws1, Lit("et"), Ws1, Lit("al"), Opt(Lit("."))>>))

\* r'[a-z]$'
RE_SUFFIX == Cat(<<Cls(LowerSet), Eol>>)

\* r'(\d{4}[a-z]?)'
RE_YEARS == Grp(1, Year)

\* r',?\s*\d{4}'
RE_AUTHOR_SPLIT == Cat(<<Opt(Lit(",")), Ws0, D4>>)

\* r'^(e\.g\.,?\s*|see\s+|cf\.\s*|for\s+review,?\s*see\s*|also\s+|as cited in\s+|as well as\s+)'
RE_PREFIX ==
    Cat(<<Bol,
          Grp(1, Alt(<<Cat(<<LitI("e.g."), Opt(Lit(",")), Ws0>>),
                       Cat(<<LitI("see"), Ws1>>),
                       Cat(<<LitI("cf."), Ws0>>),
                       Cat(<<LitI("for"), Ws1, LitI("review"), Opt(Lit(",")), Ws0,
                             LitI("see"), Ws0>>),
                       Cat(<<LitI("also"), Ws1>>),
                       Cat(<<LitI("as cited in"), Ws1>>),
                       Cat(<<LitI("as well as"), Ws1>>)>>))>>)

\* r"['’]s$"
RE_POSSESSIVE_S == Cat(<<Cls({"'", RSQUO}), Lit("s"), Eol>>)

\* r'\(([^)]+)\)'
RE_PAREN == Cat(<<Lit("("), Grp(1, Plus(NotCls({")"}))), Lit(")")>>)

\* r'\(([^)]*\d{4}[a-z]?[^)]*)\)'
RE_PAREN_YEAR ==
    Cat(<<Lit("("),
          Grp(1, Cat(<<Star(NotCls({")"})), Year, Star(NotCls({")"}))>>)),
          Lit(")")>>)

\* r"(?:([A-Z][a-z]+(?:-[A-Z][a-z]+)?)\s+)?([A-Z][a-z]+(?:-[A-Z][a-z]+)?
\*   (?:\s+(?:&|and)\s+[A-Z][a-z]+(?:-[A-Z][a-z]+)?)?(?:\s+et\s+al\.?)?)\s*
\*   \((?:e\.g\.,?\s*|see\s+|cf\.?\s*)?(\d{4}[a-z]?(?:,\s*\d{4}[a-z]?)*)\)"
RE_NARRATIVE ==
    Cat(<<Opt(Cat(<<Grp(1, HName), Ws1>>)),
          Grp(2, Cat(<<HName,
                       Opt(Cat(<<Ws1, Alt(<<Lit("&"), Lit("and")>>), Ws1, HName>>)),
                       EtAlOpt>>)),
          Ws0, Lit("("),
          Opt(Alt(<<Cat(<<Lit("e.g."), Opt(Lit(",")), Ws0>>),
                    Cat(<<Lit("see"), Ws1>>),
                    Cat(<<Lit("cf"), Opt(Lit(".")), Ws0>>)>>)),
          Grp(3, YearList),
          Lit(")")>>)

\* the gap of the possessive pattern may hold at most this many characters
POSSESSIVE_GAP == 80

\* r"(?:([A-Z][a-z]+)\s+)?([A-Z][a-z]+)'s\s+
\*   (?:(?![A-Z][a-z]+(?:-[A-Z][a-z]+)?'s)[^(]){0,80}\(([^)]+)\)"
RE_POSSESSIVE ==
    Cat(<<Opt(Cat(<<Grp(1, Name), Ws1>>)),
          Grp(2, Name), Lit("'s"), Ws1,
          Rep(Cat(<<NotAhead(Cat(<<HName, Lit("'s")>>)), NotCls({"("})>>),
              0, POSSESSIVE_GAP),
          Lit("("), Grp(3, Plus(NotCls({")"}))), Lit(")")>>)

\* r'([A-Z][a-z]+(?:-[A-Z][a-z]+)?(?:,?\s*&?\s*[A-Z][a-z]+(?:-[A-Z][a-z]+)?)*
\*   (?:\s+et\s+al\.?)?)\s*\[(\d{4}[a-z]?)\]'
RE_BRACKET ==
    Cat(<<Grp(1, Cat(<<HName,
                       Star(Cat(<<Opt(Lit(",")), Ws0, Opt(Lit("&")), Ws0, HName>>)),
                       EtAlOpt>>)),
          Ws0, Lit("["), Grp(2, Year), Lit("]")>>)

\* r'\[([^\]]*\d{4}[^\]]*;[^\]]*)\]'
RE_BRACKET_BLOCK ==
    Cat(<<Lit("["),
          Grp(1, Cat(<<Star(NotCls({"]"})), D4, Star(NotCls({"]"})), Lit(";"),
                       Star(NotCls({"]"}))>>)),
          Lit("]")>>)

\* r'([A-Z][a-z]+)\s+and\s+(?:colleagues|coworkers|collaborators)\s*\(([^)]+)\)'
RE_COLLEAGUES ==
    Cat(<<Grp(1, Name), Ws1, Lit("and"), Ws1,
          Alt(<<Lit("colleagues"), Lit("coworkers"), Lit("collaborators")>>),
          Ws0, Lit("("), Grp(2, Plus(NotCls({")"}))), Lit(")")>>)

\* r'([A-Z][a-z]+)\s+et\s+al\.?\s*\(([^)]+)\)'
RE_ET_AL ==
    Cat(<<Grp(1, Name), Ws1, Lit("et"), Ws1, Lit("al"), Opt(Lit(".")),
          Ws0, Lit("("), Grp(2, Plus(NotCls({")"}))), Lit(")")>>)

\* [a-z][a-z]+(?:-[a-zA-Z]+)?
LowerName ==
    Cat(<<Cls(LowerSet), Plus(Cls(LowerSet)),
          Opt(Cat(<<Lit("-"), Plus(Cls(LowerSet \cup UpperSet))>>))>>)

\* r'([a-z][a-z]+(?:-[a-zA-Z]+)?)\s*[\(,]\s*(\d{4}[a-z]?)'   (extraction)
RE_LOWERCASE ==
    Cat(<<Grp(1, LowerName), Ws0, Cls({"(", ","}), Ws0, Grp(2, Year)>>)

\* r'([a-z][a-z]+(?:-[a-zA-Z]+)?)\s*\((\d{4}[a-z]?(?:,\s*\d{4}[a-z]?)*)\)'  (highlighting)
RE_LOWERCASE_SPAN ==
    Cat(<<Grp(1, LowerName), Ws0, Lit("("), Grp(2, YearList), Lit(")")>>)

\* r'\((\d{4}[a-z]?)\)'
RE_REF_YEAR == Cat(<<Lit("("), Grp(1, Year), Lit(")")>>)

\* r'\(\d{4}[a-z]?\)'
RE_YEAR_PAREN == Cat(<<Lit("("), Year, Lit(")")>>)

\* r'(\w[\w-]*)\s*\((\d{4}[a-z]?)\)'
RE_CITE_STR ==
    Cat(<<Grp(1, Cat(<<Cls(WordSet), Star(Cls(WordSet \cup {"-"}))>>)), Ws0,
          Lit("("), Grp(2, Year), Lit(")")>>)

(***************************************************************************)
(* Text normalization                                                      *)
(***************************************************************************)
\* normalize_for_highlight with the zero-width characters removed as well
normalize_for_highlight_dropping_marks(text) ==
    LET t1 == replace(replace(text, LSQUO, "'"), RSQUO, "'")
        t2 == replace(replace(t1, LDQUO, "\""), RDQUO, "\"")
        t3 == replace(replace(t2, HYPHEN, "-"), NBHYPHEN, "-")
        t4 == replace(replace(t3, FIGDASH, "-"), NDASH, "-")
    IN  replace(replace(replace(t4, RLM, ""), LRM, ""), ZWSP, "")

normalize_for_highlight(text) ==
    LET t1 == replace(replace(text, LSQUO, "'"), RSQUO, "'")
        t2 == replace(replace(t1, LDQUO, "\""), RDQUO, "\"")
        t3 == replace(replace(t2, HYPHEN, "-"), NBHYPHEN, "-")
    IN  replace(replace(t3, FIGDASH, "-"), NDASH, "-")

normalize_text(text) ==
    LET t1 == replace(replace(text, LSQUO, "'"), RSQUO, "'")
        t2 == replace(replace(t1, LDQUO, "\""), RDQUO, "\"")
        t3 == replace(replace(t2, HYPHEN, "-"), NBHYPHEN, "-")
        t4 == replace(replace(t3, FIGDASH, "-"), NDASH, "-")
    IN  replace(replace(replace(t4, RLM, ""), LRM, ""), ZWSP, "")

(***************************************************************************)
(* Author/year keys                                                        *)
(***************************************************************************)
VARIABLES
    NOISE_WORDS     \* the module-level set NOISE_WORDS

\* the value NOISE_WORDS is given when the module is loaded
STATIC_NOISE_WORDS ==
    {"approaches", "therapy", "psychology", "modes", "vol", "eds",
     "chapter", "section", "page", "table", "figure", "note", "press",
     "cognitive", "relational", "behavioral", "emotional", "self",
     "individual", "interpersonal", "focused", "based", "oriented",
     "and", "the", "for", "with", "from", "into", "between",
     "also", "cited", "review", "example", "well", "see", "new",
     "other", "their", "these", "those", "such", "both", "each",
     "psychotherapy", "attachment", "schema", "technique", "model",
     "clinical", "therapeutic", "treatment", "practice", "research",
     "humanistic", "emotion-focused", "self-psychology", "self-psychology:",
     "psychoanalytic", "existential", "gestalt", "integrative",
     "dynamic", "experiential", "systemic", "narrative", "dialectical"}

\* year[:-1]: the last character goes, whatever it is
strip_year_suffix_last_char(year) == SubSeq(year, 1, Len(year) - 1)

strip_year_suffix(year) == re_sub_empty(RE_SUFFIX, year)

\* s[0].upper() + s[1:] if len(s) > 1 else s.upper()
upper_first(s) ==
    IF s = "" THEN s
    ELSE IF Len(s) > 1 THEN UpperCh(Ch(s, 1)) \o Tail(s)
    ELSE UpperCh(s)

normalize_surname(s0) == upper_first(strip(s0))

is_noise(surname) == lower(surname) \in NOISE_WORDS \/ Len(surname) <= 2

clean_author(author_str) ==
    re_sub_empty(RE_POSSESSIVE_S,
                 strip(rstripSet(strip(re_sub_empty(RE_PREFIX, strip(author_str))),
                                 {","})))

PARTICLES == {"van", "de", "den", "der", "von", "di", "la", "le", "el", "al"}

\* [p for p in parts if p and p[0].isupper()]
RECURSIVE capParts(_)
capParts(parts) ==
    IF parts = <<>> THEN <<>>
    ELSE (IF parts[1] # "" /\ Ch(parts[1], 1) \in UpperSet THEN <<parts[1]>> ELSE <<>>)
         \o capParts(Tail(parts))

\* parts.index(x), counted from 0 as in the source
indexOf(parts, x) == (CHOOSE k \in 1..Len(parts) :
                         parts[k] = x /\ \A j \in 1..(k - 1) : parts[j] # x) - 1

\* s after the splits and strips of first_surname: the first author
first_author(author_str) ==
    strip(rstripSet(
        strip(strip(split(split(split(split(author_str, " et al")[1],
                                      " & ")[1], " and ")[1], ",")[1])),
        {"."}))

\* the surname among the words parts of the first author s
surname_of_parts(s, parts) ==
    LET cap_parts == capParts(parts) IN
    IF parts = <<>> THEN normalize_surname(s)
    ELSE IF Len(cap_parts) >= 2
         THEN LET last == cap_parts[Len(cap_parts)]
                  idx  == indexOf(parts, last)
              IN  IF idx > 0 /\ lower(parts[idx]) \in PARTICLES
                  THEN parts[idx] \o " " \o last
                  ELSE normalize_surname(last)
         ELSE normalize_surname(parts[1])

\* parts = s.split()
surname_of(s) == surname_of_parts(s, splitWs(s))

first_surname(author_str) == surname_of(first_author(author_str))

(***************************************************************************)
(* Fuzzy year matching                                                     *)
(***************************************************************************)
\* a key is <<surname, year>>; None stands for Python's None
None == <<>>

\* The source iterates a set of tuples, in an order the language does not
\* fix: items is that order, a sequence that lists the set once.
RECURSIVE build_fuzzy_lookup_loop(_, _)

\* lookup[base].append(key), base entered first if new
lookup_append(lookup, base, key) ==
    LET l1 == IF base \notin DOMAIN lookup
              THEN [b \in DOMAIN lookup \cup {base} |->
                       IF b = base THEN <<>> ELSE lookup[b]]
              ELSE lookup
    IN  [l1 EXCEPT ![base] = Append(l1[base], key)]

build_fuzzy_lookup_loop(items, lookup) ==
    IF items = <<>> THEN lookup
    ELSE build_fuzzy_lookup_loop(
             Tail(items),
             lookup_append(lookup, <<items[1][1], strip_year_suffix(items[1][2])>>,
                           items[1]))

build_fuzzy_lookup(items) == build_fuzzy_lookup_loop(items, <<>>)

\* the orders of the keys of S
RECURSIVE Orders(_)
Orders(S) ==
    IF S = {} THEN {<<>>}
    ELSE UNION {{<<x>> \o q : q \in Orders(S \ {x})} : x \in S}

\* The orders in which a set of keys can be iterated, one for each way to
\* order the keys that share a surname: build_fuzzy_lookup files a key under
\* its surname and base year, so the order of two keys with different
\* surnames leaves no trace in the index.
RECURSIVE IterationOrders(_)
IterationOrders(S) ==
    IF S = {} THEN {<<>>}
    ELSE LET x    == CHOOSE k \in S : TRUE
             same == {k \in S : k[1] = x[1]}
         IN  {p \o q : p \in Orders(same), q \in IterationOrders(S \ same)}

\* for ref_surname, ref_year in candidates: if ref_year != year: return ...
RECURSIVE first_other_year(_, _)
first_other_year(candidates, year) ==
    IF candidates = <<>> THEN <<"none", None>>
    ELSE IF candidates[1][2] # year THEN <<"fuzzy", candidates[1]>>
    ELSE first_other_year(Tail(candidates), year)

\* the steps of fuzzy_match_citation with the index consulted before the
\* stripped year
match_steps_lookup_first(surname, year, base_year, refs, lookup) ==
    LET base_key == <<surname, base_year>>
        listed   == IF base_key \in DOMAIN lookup
                    THEN first_other_year(lookup[base_key], year)
                    ELSE <<"none", None>>
    IN  IF <<surname, year>> \in refs THEN <<"exact", <<surname, year>>>>
        ELSE IF listed[1] = "fuzzy" THEN listed
        ELSE IF base_year # year /\ <<surname, base_year>> \in refs
             THEN <<"fuzzy", <<surname, base_year>>>>
        ELSE <<"none", None>>

\* the steps of fuzzy_match_citation with step 2 not looking the stripped
\* key up
match_steps_unchecked_base(surname, year, base_year, refs, lookup) ==
    LET base_key == <<surname, base_year>> IN
    IF <<surname, year>> \in refs THEN <<"exact", <<surname, year>>>>
    ELSE IF base_year # year
         THEN <<"fuzzy", <<surname, base_year>>>>
    ELSE IF base_key \in DOMAIN lookup
         THEN first_other_year(lookup[base_key], year)
    ELSE <<"none", None>>

\* the steps of fuzzy_match_citation, given base_year =
\* strip_year_suffix(year); items is ref_set
match_steps(surname, year, base_year, items, lookup) ==
    LET base_key == <<surname, base_year>> IN
    IF <<surname, year>> \in items THEN <<"exact", <<surname, year>>>>
    ELSE IF base_year # year /\ <<surname, base_year>> \in items
         THEN <<"fuzzy", <<surname, base_year>>>>
    ELSE IF base_key \in DOMAIN lookup
         THEN first_other_year(lookup[base_key], year)
    ELSE <<"none", None>>

fuzzy_match_citation(surname, year, refs, lookup) ==
    match_steps(surname, year, strip_year_suffix(year), refs, lookup)

\* the steps of fuzzy_match_reference without the look into the index
reference_steps_without_lookup(surname, year, base_year, cites, lookup) ==
    IF <<surname, year>> \in cites THEN <<"exact", <<surname, year>>>>
    ELSE IF base_year # year /\ <<surname, base_year>> \in cites
         THEN <<"fuzzy", <<surname, base_year>>>>
    ELSE <<"none", None>>

\* the steps of fuzzy_match_reference, given base_year =
\* strip_year_suffix(year); cites is citation_set, lookup is
\* citation_fuzzy_lookup
reference_steps(surname, year, base_year, cites, lookup) ==
    LET base_key == <<surname, base_year>> IN
    IF <<surname, year>> \in cites THEN <<"exact", <<surname, year>>>>
    ELSE IF base_year # year /\ <<surname, base_year>> \in cites
         THEN <<"fuzzy", <<surname, base_year>>>>
    ELSE IF base_key \in DOMAIN lookup
         THEN first_other_year(lookup[base_key], year)
    ELSE <<"none", None>>

fuzzy_match_reference(surname, year, cites, lookup) ==
    reference_steps(surname, year, strip_year_suffix(year), cites, lookup)

(***************************************************************************)
(* Citation extraction                                                     *)
(***************************************************************************)
\* for y in years: ...((surname, y))
keys_for(surname, years) == [n \in DOMAIN years |-> <<surname, years[n]>>]

\* if not is_noise(surname): the keys of the surname with the years
keys_unless_noise(surname, years) ==
    IF is_noise(surname) THEN <<>> ELSE keys_for(surname, years)

\* author_part = clean_author(re.split(r',?\s*\d{4}', part)[0].strip())
author_part_of(part) == clean_author(strip(re_split_first(RE_AUTHOR_SPLIT, part)))

\* what a part says about its author: "named" with the surname, "noise" if
\* the surname is a noise word, "bare" if the part holds no author
author_named(surname) ==
    [kind |-> IF is_noise(surname) THEN "noise" ELSE "named", surname |-> surname]

\* if author_part and len(author_part) > 2: surname = first_surname(author_part)
author_of(author_part) ==
    IF author_part # "" /\ Len(author_part) > 2
    THEN author_named(first_surname(author_part))
    ELSE [kind |-> "bare", surname |-> ""]

\* one part of a block: its years and its author
part_of(part) ==
    [years |-> re_findall(RE_YEARS, part), author |-> author_of(author_part_of(part))]

\* the parts of the pieces block.split(';'), each stripped
parts_from(pieces) == [n \in DOMAIN pieces |-> part_of(strip(pieces[n]))]

\* for part in block.split(';')
parts_of(block) == parts_from(split(block, ";"))

\* The loop of the parenthetical recognizer over the parts: a part with its
\* own author sets last_author, a part of bare years inherits it.
\* last_author = None is the empty string.
RECURSIVE paren_parts(_, _, _)
paren_parts(parts, n, last_author) ==
    IF n > Len(parts) THEN <<>>
    ELSE IF parts[n].years = <<>> THEN paren_parts(parts, n + 1, last_author)
    ELSE IF parts[n].author.kind = "named"
         THEN keys_for(parts[n].author.surname, parts[n].years)
              \o paren_parts(parts, n + 1, parts[n].author.surname)
    ELSE IF parts[n].author.kind = "bare" /\ last_author # ""
         THEN keys_for(last_author, parts[n].years)
              \o paren_parts(parts, n + 1, last_author)
    ELSE paren_parts(parts, n + 1, last_author)

paren_block_citations(block) == paren_parts(parts_of(block), 1, "")

\* The loop of the possessive, and-colleagues and et-al recognizers: a part
\* of bare years takes the surname that stands before the parenthesis.
RECURSIVE inherit_parts(_, _, _)
inherit_parts(parts, n, outer_surname) ==
    IF n > Len(parts) THEN <<>>
    ELSE IF parts[n].years = <<>> THEN inherit_parts(parts, n + 1, outer_surname)
    ELSE (IF parts[n].author.kind = "named"
          THEN keys_for(parts[n].author.surname, parts[n].years)
          ELSE IF parts[n].author.kind = "bare"
               THEN keys_unless_noise(outer_surname, parts[n].years)
          ELSE <<>>)
         \o inherit_parts(parts, n + 1, outer_surname)

inherit_block_citations(paren_content, outer_surname) ==
    inherit_parts(parts_of(paren_content), 1, outer_surname)

\* The loop of the bracket block recognizer (4b): no inheritance.
RECURSIVE bracket_parts(_, _)
bracket_parts(parts, n) ==
    IF n > Len(parts) THEN <<>>
    ELSE (IF parts[n].years # <<>> /\ parts[n].author.kind = "named"
          THEN keys_for(parts[n].author.surname, parts[n].years)
          ELSE <<>>)
         \o bracket_parts(parts, n + 1)

bracket_block_citations(block) == bracket_parts(parts_of(block), 1)

\* narrative: surname = first_surname(m.group(2).strip()), years of group 3
narrative_citations(txt, m) ==
    keys_unless_noise(first_surname(strip(group(txt, m, 2))),
                      re_findall(RE_YEARS, group(txt, m, 3)))

\* 4a: surname = first_surname(clean_author(m.group(1).strip())), year = group 2
bracket_citations(txt, m) ==
    keys_unless_noise(first_surname(clean_author(strip(group(txt, m, 1)))),
                      <<group(txt, m, 2)>>)

\* the lowercase recognizer without its is_noise test
lowercase_citations_unfiltered(txt, m) ==
    keys_for(normalize_surname(group(txt, m, 1)), <<group(txt, m, 2)>>)

\* 7: surname = normalize_surname(m.group(1)), year = group 2
lowercase_citations(txt, m) ==
    keys_unless_noise(normalize_surname(group(txt, m, 1)), <<group(txt, m, 2)>>)

SeqToSet(q) == {q[n] : n \in DOMAIN q}

recognizer_1(txt, m) == paren_block_citations(group(txt, m, 1))
recognizer_3(txt, m) == inherit_block_citations(group(txt, m, 3), group(txt, m, 2))
recognizer_4b(txt, m) == bracket_block_citations(group(txt, m, 1))
recognizer_5(txt, m) == inherit_block_citations(group(txt, m, 2), group(txt, m, 1))

\* the recognizers of extract_citations_from_text and their patterns
CITATION_RECOGNIZERS ==
    {"parenthetical", "narrative", "possessive", "bracket", "bracket_block",
     "colleagues", "et_al", "lowercase"}

citation_pattern(recognizer) ==
    CASE recognizer = "parenthetical" -> RE_PAREN
      [] recognizer = "narrative"     -> RE_NARRATIVE
      [] recognizer = "possessive"    -> RE_POSSESSIVE
      [] recognizer = "bracket"       -> RE_BRACKET
      [] recognizer = "bracket_block" -> RE_BRACKET_BLOCK
      [] recognizer = "colleagues"    -> RE_COLLEAGUES
      [] recognizer = "et_al"         -> RE_ET_AL
      [] recognizer = "lowercase"     -> RE_LOWERCASE

\* the keys one match of a recognizer of extract_citations_from_text adds
citations_of_match(recognizer, txt, m) ==
    CASE recognizer = "parenthetical" -> recognizer_1(txt, m)
      [] recognizer = "narrative"     -> narrative_citations(txt, m)
      [] recognizer = "possessive"    -> recognizer_3(txt, m)
      [] recognizer = "bracket"       -> bracket_citations(txt, m)
      [] recognizer = "bracket_block" -> recognizer_4b(txt, m)
      [] recognizer = "colleagues"    -> recognizer_5(txt, m)
      [] recognizer = "et_al"         -> recognizer_5(txt, m)
      [] recognizer = "lowercase"     -> lowercase_citations(txt, m)

\* the keys the matches ms of a recognizer add
keys_of_matches(recognizer, txt, ms) ==
    UNION {SeqToSet(citations_of_match(recognizer, txt, ms[n])) : n \in DOMAIN ms}

\* for m in re.finditer(pattern, text): citations.add(...)
KeysOfMatches(recognizer, txt) ==
    keys_of_matches(recognizer, txt, re_finditer(citation_pattern(recognizer), txt))

\* citations before the final normalization
citations_in(text) ==
    UNION {KeysOfMatches(recognizer, text) : recognizer \in CITATION_RECOGNIZERS}

\* normalized.add((normalize_surname(surname), year))
normalized_keys(citations) == {<<normalize_surname(k[1]), k[2]>> : k \in citations}

extract_citations_from_text(plain_text) ==
    normalized_keys(citations_in(normalize_text(plain_text)))

(***************************************************************************)
(* Reference extraction                                                    *)
(***************************************************************************)
HEADINGS == {"References", "REFERENCES", "Reference List", "Bibliography"}

\* find_references_heading_index: paragraph indices count from 0
RECURSIVE find_heading_from(_, _)
find_heading_from(paras, i) ==
    IF i >= Len(paras) THEN Len(paras)
    ELSE IF strip(paras[i + 1]) \in HEADINGS THEN i
    ELSE find_heading_from(paras, i + 1)

find_heading_or_last_paragraph(paras) ==
    IF find_heading_from(paras, 0) < Len(paras) \/ paras = <<>>
    THEN find_heading_from(paras, 0)
    ELSE Len(paras) - 1

find_references_heading_index(paras) == find_heading_from(paras, 0)

\* ord('a'), and chr for the codes from there to the end of ASCII's
\* printable characters
ORD_A == 97
ASCII_FROM_A == "abcdefghijklmnopqrstuvwxyz{|}~"
chr(n) == Ch(ASCII_FROM_A, n - ORD_A + 1)

\* before = text[:text.index('(')].strip().rstrip(',').strip()
before_paren(text) ==
    strip(rstripSet(strip(SubSeq(text, 1, find(text, "(", 1) - 1)), {","}))

\* surname = parts[0] if parts else ''
first_part(parts) == IF parts # <<>> THEN parts[1] ELSE ""

\* parts = before.split(',')[0].strip().rstrip('.').split()
ref_surname(before) ==
    first_part(splitWs(rstripSet(strip(split(before, ",")[1]), {"."})))

\* raw_ref_entry keeping a surname of any length
raw_ref_entry_any_length(surname, year, pi) ==
    IF surname # "" THEN <<<<surname, year, pi>>>> ELSE <<>>

\* if surname and len(surname) > 1: raw_refs.append((surname, year, pi))
raw_ref_entry(surname, year, pi) ==
    IF surname # "" /\ Len(surname) > 1 THEN <<<<surname, year, pi>>>> ELSE <<>>

\* if year_match: ...
raw_ref_at(text, year_match, pi) ==
    IF year_match.s = 0 THEN <<>>
    ELSE raw_ref_entry(ref_surname(before_paren(text)), group(text, year_match, 1), pi)

\* what a paragraph with the normalized text adds to raw_refs
raw_ref_in(text, pi) ==
    IF text = "" THEN <<>>
    ELSE IF text \in HEADINGS THEN <<>>
    ELSE raw_ref_at(text, re_search(RE_REF_YEAR, text), pi)

\* the body of the first loop: what paragraph pi adds to raw_refs
raw_ref_of(para_text, pi) == raw_ref_in(normalize_text(strip(para_text)), pi)

\* for pi in range(ref_para_idx + 1, len(doc.paragraphs))
RECURSIVE collect_raw_refs(_, _)
collect_raw_refs(paras, pi) ==
    IF pi >= Len(paras) THEN <<>>
    ELSE raw_ref_of(paras[pi + 1], pi) \o collect_raw_refs(paras, pi + 1)

base_of_raw(r) == <<r[1], strip_year_suffix(r[2])>>

\* base_counts[base]
base_count(raw, base) == Cardinality({n \in DOMAIN raw : base_of_raw(raw[n]) = base})

\* The second loop.  For each entry of raw_refs, in order, the suffix it is
\* given ("" when none is); tracker is suffix_tracker, a map base -> code.
RECURSIVE assign_suffixes(_, _, _)

\* if base not in suffix_tracker: suffix_tracker[base] = ord('a')
tracker_with(tracker, base) ==
    IF base \notin DOMAIN tracker
    THEN [b \in DOMAIN tracker \cup {base} |-> IF b = base THEN ORD_A ELSE tracker[b]]
    ELSE tracker

\* next_suffix with a tracker that is never advanced
next_suffix_same_letter(raw, n, tracker, base) ==
    <<chr(tracker[base])>> \o assign_suffixes(raw, n + 1, tracker)

\* suffix = chr(suffix_tracker[base]); suffix_tracker[base] += 1
next_suffix(raw, n, tracker, base) ==
    <<chr(tracker[base])>>
    \o assign_suffixes(raw, n + 1, [tracker EXCEPT ![base] = @ + 1])

\* entry n, whose base is given
assign_suffix(raw, n, tracker, base) ==
    IF base_count(raw, base) > 1 /\ re_search(RE_SUFFIX, raw[n][2]).s = 0
    THEN next_suffix(raw, n, tracker_with(tracker, base), base)
    ELSE <<"">> \o assign_suffixes(raw, n + 1, tracker)

assign_suffixes(raw, n, tracker) ==
    IF n > Len(raw) THEN <<>>
    ELSE assign_suffix(raw, n, tracker, base_of_raw(raw[n]))

\* what the second loop adds to refs for entry n
keys_of_entry(raw, suffixes, n) ==
    IF suffixes[n] # ""
    THEN {<<raw[n][1], raw[n][2] \o suffixes[n]>>, <<raw[n][1], raw[n][2]>>}
    ELSE {<<raw[n][1], raw[n][2]>>}

\* refs, given the suffixes of the entries
refs_with(raw, suffixes) == UNION {keys_of_entry(raw, suffixes, n) : n \in DOMAIN raw}

refs_of(raw) == refs_with(raw, assign_suffixes(raw, 1, <<>>))

extract_references_from_doc(paras, idx) == refs_of(collect_raw_refs(paras, idx + 1))

(***************************************************************************)
(* Citation highlighting                                                   *)
(***************************************************************************)
GREEN_HIGHLIGHT  == "green"
YELLOW_HIGHLIGHT == "yellow"
CYAN_HIGHLIGHT   == "cyan"
RED_HIGHLIGHT    == "red"
NO_HIGHLIGHT     == "none"          \* a run without w:highlight

\* the color of a match type
color_of(match_type) ==
    CASE match_type = "exact" -> GREEN_HIGHLIGHT
      [] match_type = "fuzzy" -> CYAN_HIGHLIGHT
      [] OTHER -> YELLOW_HIGHLIGHT

determine_highlight_color(surname, year, refs, lookup) ==
    color_of(fuzzy_match_citation(surname, year, refs, lookup)[1])

worst_color_cyan_first(colors) ==
    IF CYAN_HIGHLIGHT \in colors THEN CYAN_HIGHLIGHT
    ELSE IF YELLOW_HIGHLIGHT \in colors THEN YELLOW_HIGHLIGHT
    ELSE GREEN_HIGHLIGHT

\* yellow before cyan before green
worst_color(colors) ==
    IF YELLOW_HIGHLIGHT \in colors THEN YELLOW_HIGHLIGHT
    ELSE IF CYAN_HIGHLIGHT \in colors THEN CYAN_HIGHLIGHT
    ELSE GREEN_HIGHLIGHT

\* the color of a block: the worst color of its citations
block_color(block_citations, refs, lookup) ==
    worst_color({determine_highlight_color(k[1], k[2], refs, lookup) :
                    k \in SeqToSet(block_citations)})

\* possessive span: only if the parenthesis holds four digits
possessive_span_citations(txt, m) ==
    IF re_search(D4, group(txt, m, 3)).s = 0 THEN <<>>
    ELSE inherit_block_citations(group(txt, m, 3), group(txt, m, 2))

\* lowercase span: surname = normalize_surname(m.group(1)), years of group 2
lowercase_span_citations(txt, m) ==
    keys_unless_noise(normalize_surname(group(txt, m, 1)),
                      re_findall(RE_YEARS, group(txt, m, 2)))

\* the recognizers of highlight_body_citations in the order in which they
\* run, and their patterns
SPAN_RECOGNIZERS ==
    <<"bracket", "bracket_block", "parenthetical", "narrative", "possessive",
      "colleagues", "lowercase">>

span_pattern(recognizer) ==
    CASE recognizer = "bracket"       -> RE_BRACKET
      [] recognizer = "bracket_block" -> RE_BRACKET_BLOCK
      [] recognizer = "parenthetical" -> RE_PAREN_YEAR
      [] recognizer = "narrative"     -> RE_NARRATIVE
      [] recognizer = "possessive"    -> RE_POSSESSIVE
      [] recognizer = "colleagues"    -> RE_COLLEAGUES
      [] recognizer = "lowercase"     -> RE_LOWERCASE_SPAN

\* block_citations of one match of a recognizer of highlight_body_citations
block_citations_of_match(recognizer, txt, m) ==
    CASE recognizer = "bracket"       -> bracket_citations(txt, m)
      [] recognizer = "bracket_block" -> recognizer_4b(txt, m)
      [] recognizer = "parenthetical" -> recognizer_1(txt, m)
      [] recognizer = "narrative"     -> narrative_citations(txt, m)
      [] recognizer = "possessive"    -> possessive_span_citations(txt, m)
      [] recognizer = "colleagues"    -> recognizer_5(txt, m)
      [] recognizer = "lowercase"     -> lowercase_span_citations(txt, m)

\* the matches ms of one recognizer with the keys each one yields; start and
\* end are m.start() and m.end(), counted from 0
candidates_of(recognizer, txt, ms) ==
    [n \in 1..Len(ms) |->
        [recognizer |-> recognizer, start |-> ms[n].s - 1, end |-> ms[n].e - 1,
         block_citations |-> block_citations_of_match(recognizer, txt, ms[n])]]

\* for m in re.finditer(pattern, full_text)
Candidates(recognizer, txt) ==
    candidates_of(recognizer, txt, re_finditer(span_pattern(recognizer), txt))

\* the matches of the recognizers from the k-th on, in the order in which
\* highlight_body_citations visits them
RECURSIVE candidates_from(_, _)
candidates_from(full_text, k) ==
    IF k > Len(SPAN_RECOGNIZERS) THEN <<>>
    ELSE Candidates(SPAN_RECOGNIZERS[k], full_text) \o candidates_from(full_text, k + 1)

span_candidates(full_text) == candidates_from(full_text, 1)

\* any(hs <= span_start < he or hs < span_end <= he for hs, he in highlighted_spans)
overlaps(spans, span_start, span_end) ==
    \E n \in DOMAIN spans :
        \/ spans[n][1] <= span_start /\ span_start < spans[n][2]
        \/ spans[n][1] < span_end /\ span_end <= spans[n][2]

\* f"{surname} ({year})"
cite_str(k) == k[1] \o " (" \o k[2] \o ")"

\* what the matcher says about each key of a block
match_types(block_citations, refs, lookup) ==
    [n \in DOMAIN block_citations |->
        fuzzy_match_citation(block_citations[n][1], block_citations[n][2],
                             refs, lookup)[1]]

\* the keys of a block that the matcher classified as match_type, in order
keys_of_type(block_citations, types, match_type) ==
    LET is_type(n) == types[n] = match_type
        ns == SelectSeq([n \in DOMAIN block_citations |-> n], is_type)
    IN  [j \in DOMAIN ns |-> block_citations[ns[j]]]

strs_of(keys) == [n \in DOMAIN keys |-> cite_str(keys[n])]

\* text of the runs before run k: its start offset
RECURSIVE run_start(_, _)
run_start(runs, k) ==
    IF k <= 1 THEN 0 ELSE run_start(runs, k - 1) + Len(runs[k - 1].text)

\* A run of the document. text is run.text, which python-docx puts together
\* from the children of the w:r element in their order: the text of a w:t, a
\* tab for a w:tab, a line break for a w:br. kept is what the children other
\* than w:t contribute; highlight is the w:val of w:highlight.
a_run(text, kept, highlight) == [text |-> text, kept |-> kept, highlight |-> highlight]

\* split_run: both elements lose their w:t children only and get a new w:t
\* appended, with full_text[:split_at] and full_text[split_at:]; the right
\* element is a deep copy, so it has the highlight of the left one
split_run(r, split_at) ==
    <<[r EXCEPT !.text = r.kept \o SubSeq(r.text, 1, split_at)],
      [r EXCEPT !.text = r.kept \o SubSeq(r.text, split_at + 1, Len(r.text))]>>

\* split_run at the run that holds the boundary strictly inside, if any
split_at_boundary(runs, boundary) ==
    LET inside == {k \in DOMAIN runs :
                      /\ run_start(runs, k) < boundary
                      /\ boundary < run_start(runs, k) + Len(runs[k].text)}
    IN  IF inside = {} THEN runs
        ELSE LET k        == MinOf(inside)
                 split_at == boundary - run_start(runs, k)
             IN  SubSeq(runs, 1, k - 1) \o split_run(runs[k], split_at)
                 \o SubSeq(runs, k + 1, Len(runs))

\* the runs inside the span take the color
highlight_runs(pieces, char_start, char_end, color_index) ==
    [k \in DOMAIN pieces |->
        IF /\ run_start(pieces, k) >= char_start
           /\ run_start(pieces, k) + Len(pieces[k].text) <= char_end
           /\ Len(pieces[k].text) > 0
        THEN [pieces[k] EXCEPT !.highlight = color_index]
        ELSE pieces[k]]

highlight_span_in_paragraph(runs, char_start, char_end, color_index) ==
    highlight_runs(split_at_boundary(split_at_boundary(runs, char_start), char_end),
                   char_start, char_end, color_index)

\* a match that is not skipped: the counters and lists take its keys by
\* match type, the span is highlighted and entered in highlighted_spans
accept_match(h, cand, types, color) ==
    [matched        |-> h.matched
                        + Len(keys_of_type(cand.block_citations, types, "exact")),
     fuzzy_matched  |-> h.fuzzy_matched
                        + Len(keys_of_type(cand.block_citations, types, "fuzzy")),
     unmatched      |-> h.unmatched
                        + Len(keys_of_type(cand.block_citations, types, "none")),
     fuzzy_list     |-> h.fuzzy_list
                        \o strs_of(keys_of_type(cand.block_citations, types, "fuzzy")),
     unmatched_list |-> h.unmatched_list
                        \o strs_of(keys_of_type(cand.block_citations, types, "none")),
     spans          |-> Append(h.spans, <<cand.start, cand.end>>),
     runs           |-> highlight_span_in_paragraph(h.runs, cand.start, cand.end, color),
     log            |-> h.log \o cand.block_citations,
     blocks         |-> Append(h.blocks,
                               [recognizer |-> cand.recognizer,
                                span_start |-> cand.start, span_end |-> cand.end,
                                block_citations |-> cand.block_citations,
                                color |-> color])]

\* a loop that tests only whether the match yields a key
visit_match_without_skip(h, cand, refs, lookup) ==
    IF cand.block_citations = <<>>
    THEN h
    ELSE accept_match(h, cand, match_types(cand.block_citations, refs, lookup),
                      block_color(cand.block_citations, refs, lookup))

\* one match of a recognizer, given what the paragraph loop holds so far:
\* h.spans is highlighted_spans, h.log the keys handed to the matcher,
\* h.blocks the span, block_citations and color of the matches of the
\* paragraph that were not skipped
visit_match(h, cand, refs, lookup) ==
    IF \/ cand.recognizer # "bracket" /\ overlaps(h.spans, cand.start, cand.end)
       \/ cand.block_citations = <<>>
    THEN h
    ELSE accept_match(h, cand, match_types(cand.block_citations, refs, lookup),
                      block_color(cand.block_citations, refs, lookup))

RECURSIVE visit_matches(_, _, _, _, _)
visit_matches(h, cands, n, refs, lookup) ==
    IF n > Len(cands) THEN h
    ELSE visit_matches(visit_match(h, cands[n], refs, lookup), cands, n + 1,
                       refs, lookup)

\* para.text
para_text(runs) == join([k \in DOMAIN runs |-> runs[k].text], "")

\* the paragraph loop once full_text is known
highlight_text(h, full_text, refs, lookup) ==
    IF strip(full_text) = "" THEN h
    ELSE visit_matches([h EXCEPT !.spans = <<>>, !.blocks = <<>>],
                       span_candidates(full_text), 1, refs, lookup)

\* the body of the paragraph loop of highlight_body_citations
highlight_paragraph(h, refs, lookup) ==
    highlight_text(h, normalize_for_highlight(para_text(h.runs)), refs, lookup)

(***************************************************************************)
(* Reference highlighting                                                  *)
(***************************************************************************)
\* the color of a reference by match type
reference_color(match_type) ==
    CASE match_type = "exact" -> GREEN_HIGHLIGHT
      [] match_type = "fuzzy" -> CYAN_HIGHLIGHT
      [] OTHER -> RED_HIGHLIGHT

\* year and surname of an entry, None if it shows no year in parentheses
reference_key_at(text_clean, year_match) ==
    IF year_match.s = 0 THEN None
    ELSE <<ref_surname(before_paren(text_clean)), group(text_clean, year_match, 1)>>

reference_key_in(text_clean) ==
    reference_key_at(text_clean, re_search(RE_REF_YEAR, text_clean))

\* text = para.text.strip(); text_clean = normalize_text(text)
reference_key_of(text) ==
    IF text = "" THEN None ELSE reference_key_in(normalize_text(text))

\* span_end: the end of the first "(Year)" of para.text, else its length
reference_span_end(text, year_paren_match) ==
    IF year_paren_match.s # 0 THEN year_paren_match.e - 1 ELSE Len(text)

reference_match_type_counting_all(key, cites, lookup) ==
    IF key = None THEN "exact"
    ELSE IF key[1] = "" THEN "skip"
    ELSE fuzzy_match_reference(key[1], key[2], cites, lookup)[1]

\* what the loop does with an entry whose key is key: "skip" if the
\* paragraph is passed over, else the match type
reference_match_type(key, cites, lookup) ==
    IF key = None THEN "skip"
    ELSE IF key[1] = "" THEN "skip"
    ELSE fuzzy_match_reference(key[1], key[2], cites, lookup)[1]

reference_entry(text, key, cites, lookup) ==
    [key        |-> key,
     match_type |-> reference_match_type(key, cites, lookup),
     span_end   |-> reference_span_end(text, re_search(RE_YEAR_PAREN, text))]

\* for pi in range(ref_para_idx + 1, len(doc.paragraphs)): what the loop
\* finds in each paragraph
reference_entries(paras, idx, cites, lookup) ==
    [n \in 1..(Len(paras) - idx - 1) |->
        reference_entry(paras[idx + 1 + n], reference_key_of(strip(paras[idx + 1 + n])),
                        cites, lookup)]

\* the counters and lists after an entry
count_reference(h, entry) ==
    CASE entry.match_type = "skip"  -> h
      [] entry.match_type = "exact" -> [h EXCEPT !.cited_count = @ + 1]
      [] entry.match_type = "fuzzy" ->
           [h EXCEPT !.fuzzy_count = @ + 1,
                     !.fuzzy_list = Append(@, cite_str(entry.key))]
      [] OTHER ->
           [h EXCEPT !.uncited_count = @ + 1,
                     !.uncited_list = Append(@, cite_str(entry.key))]

RECURSIVE count_references(_, _, _)
count_references(h, entries, n) ==
    IF n > Len(entries) THEN h
    ELSE count_references(count_reference(h, entries[n]), entries, n + 1)

\* highlight_span_in_paragraph(para, 0, span_end, color) for the entries
\* that were not passed over
reference_runs(runs, idx, entries) ==
    [p \in DOMAIN runs |->
        IF p <= idx + 1 THEN runs[p]
        ELSE IF entries[p - idx - 1].match_type = "skip" THEN runs[p]
        ELSE highlight_span_in_paragraph(
                 runs[p], 0, entries[p - idx - 1].span_end,
                 reference_color(entries[p - idx - 1].match_type))]

(***************************************************************************)
(* What json.load returns: a value is a record with its Python type t and  *)
(* its content v; a dict holds its items in the order of the file.         *)
(***************************************************************************)
JNull        == [t |-> "NoneType", v |-> <<>>]
JStr(s)      == [t |-> "str", v |-> s]
JNum(n)      == [t |-> "int", v |-> n]
JList(items) == [t |-> "list", v |-> items]
JDict(items) == [t |-> "dict", v |-> items]

\* the places of key among the items of a dict
places_of(items, key) == {n \in DOMAIN items : items[n][1] = key}

\* dict.get(key, default)
dict_get(d, key, default) ==
    IF places_of(d.v, key) = {} THEN default
    ELSE d.v[CHOOSE n \in places_of(d.v, key) :
                 \A m \in places_of(d.v, key) : m <= n][2]

\* bool(value)
truthy(value) ==
    CASE value.t = "NoneType" -> FALSE
      [] value.t = "int"      -> value.v # 0
      [] value.t = "str"      -> value.v # ""
      [] OTHER                -> value.v # <<>>

\* the types with __len__ and __iter__
SIZED == {"str", "list", "dict"}

\* what a for loop over value visits: the items of a list, the keys of a
\* dict, the characters of a str
iterate(value) ==
    CASE value.t = "list" -> value.v
      [] value.t = "dict" -> [n \in DOMAIN value.v |-> JStr(value.v[n][1])]
      [] value.t = "str"  -> [n \in 1..Len(value.v) |-> JStr(Ch(value.v, n))]
      [] OTHER            -> <<>>

(***************************************************************************)
(* State                                                                   *)
(***************************************************************************)
VARIABLES
    pc,                     \* where the run is
    learned,                \* main: learned (the learned patterns file)
    paragraphs,             \* doc.paragraphs: the text of each paragraph
    runs,                   \* the runs of each paragraph: text and highlight
    ref_para_idx,           \* main: ref_para_idx (counted from 0)
    citation_set,           \* main: citation_set
    raw_refs,               \* extract_references_from_doc: raw_refs
    ref_suffixes,           \* the suffix its second loop gave each entry
    ref_set,                \* main: ref_set
    ref_fuzzy_lookup,       \* main: ref_fuzzy_lookup
    citation_fuzzy_lookup,  \* main: citation_fuzzy_lookup
    body,                   \* highlight_body_citations: its locals, see BodyStart
    query,                  \* the key last handed to the matcher
    result,                 \* what the matcher returned for it
    store,                  \* the file LEARNED_PATTERNS_FILE
    report,                 \* main: the counts and lists it reports
    run,                    \* the calls of main in this process so far
    error,                  \* the exception that ended the run, if any
    mirror                  \* what fuzzy_match_reference returned for query

\* the state main comes to after highlight_body_citations
later == <<store, report, run, error, mirror>>

vars == <<pc, NOISE_WORDS, learned, paragraphs, runs, ref_para_idx, citation_set,
          raw_refs, ref_suffixes, ref_set, ref_fuzzy_lookup,
          citation_fuzzy_lookup, body, query, result, store, report, run, error,
          mirror>>

\* the sequences over S of length at most n
RECURSIVE SeqsUpTo(_, _)
SeqsUpTo(S, n) ==
    IF n = 0 THEN {<<>>}
    ELSE LET shorter == SeqsUpTo(S, n - 1) IN
         shorter \cup {Append(q, x) : q \in shorter, x \in S}

\* a document as loaded: every paragraph is one run of text without highlight
OneRunEach(paras) ==
    [p \in DOMAIN paras |-> <<a_run(paras[p], "", NO_HIGHLIGHT)>>]

\* highlight_body_citations before its loop: the counters and lists, the
\* number of paragraphs visited (para), highlighted_spans of the paragraph
\* visited last (spans), its accepted matches (blocks) and the keys handed
\* to the matcher so far (log)
BodyStart ==
    [para |-> 0, matched |-> 0, fuzzy_matched |-> 0, unmatched |-> 0,
     fuzzy_list |-> <<>>, unmatched_list |-> <<>>, spans |-> <<>>, log |-> <<>>,
     blocks |-> <<>>]

\* {"version": 1, "noise_words": [], "cross_matches": []}
NoPatterns == [noise_words |-> JList(<<>>), cross_matches |-> JList(<<>>)]

\* the store file that holds patterns
store_of(patterns) ==
    [kind |-> "json",
     data |-> JDict(<<<<"version", JNum(1)>>,
                      <<"noise_words", patterns.noise_words>>,
                      <<"cross_matches", patterns.cross_matches>>>>)]

\* highlight_references before its loop: the counters and lists
RefsStart ==
    [cited_count |-> 0, fuzzy_count |-> 0, uncited_count |-> 0,
     uncited_list |-> <<>>, fuzzy_list |-> <<>>]

\* the variables main assigns from highlight_body_citations on, before it
\* assigned them
ReportStart ==
    [body_matched |-> 0, body_fuzzy |-> 0, body_unmatched |-> 0,
     unmatched_list |-> <<>>, fuzzy_cite_list |-> <<>>,
     ref_cited |-> 0, ref_fuzzy |-> 0, ref_uncited |-> 0,
     uncited_list |-> <<>>, fuzzy_ref_list |-> <<>>,
     auto_matches |-> <<>>, results_json |-> <<>>]

\* a first call of main that loaded learned from the store and has not come
\* to the end of highlight_body_citations
NothingLater ==
    /\ store = store_of(learned)
    /\ report = ReportStart
    /\ run = 1
    /\ error = ""
    /\ mirror = None

(***************************************************************************)
(* Operations                                                              *)
(***************************************************************************)
\* the exception load_learned_patterns ends with, "" if it returns: the
\* except clause catches json.JSONDecodeError and IOError only
load_error(file) ==
    IF file.kind = "json" /\ file.data.t # "dict" THEN "AttributeError" ELSE ""

\* what load_learned_patterns returns: the dict of the file after the three
\* setdefault calls, else the defaults
load_learned_patterns(file) ==
    IF file.kind = "json"
    THEN [noise_words   |-> dict_get(file.data, "noise_words", JList(<<>>)),
          cross_matches |-> dict_get(file.data, "cross_matches", JList(<<>>))]
    ELSE NoPatterns

\* main: learned = load_learned_patterns()
LoadLearnedPatterns ==
    /\ pc = "boot"
    /\ error' = load_error(store)
    /\ learned' = IF error' = "" THEN load_learned_patterns(store) ELSE learned
    /\ pc' = IF error' = "" THEN "start" ELSE "aborted"
    /\ UNCHANGED <<NOISE_WORDS, paragraphs, runs, ref_para_idx, citation_set,
                   raw_refs, ref_suffixes, ref_set, ref_fuzzy_lookup,
                   citation_fuzzy_lookup, body, query, result>>
    /\ UNCHANGED <<store, report, run, mirror>>

\* the places of the words that have no method lower
not_str(words) == {n \in DOMAIN words : words[n].t # "str"}

\* the words the loop of apply_learned_noise_words comes to
words_reached(words) ==
    IF not_str(words) = {} THEN words
    ELSE SubSeq(words, 1, MinOf(not_str(words)) - 1)

\* global NOISE_WORDS after NOISE_WORDS.add(word.lower()) for each word
apply_learned_noise_words(patterns) ==
    NOISE_WORDS
    \cup {lower(w.v) : w \in SeqToSet(words_reached(iterate(patterns.noise_words)))}

\* the exception lines 1289 to 1293 of main end with, "" if there is none:
\* len() of the two entries, then word.lower() for each word
noise_words_error(patterns) ==
    IF patterns.noise_words.t \notin SIZED THEN "TypeError"
    ELSE IF patterns.cross_matches.t \notin SIZED THEN "TypeError"
    ELSE IF not_str(iterate(patterns.noise_words)) # {} THEN "AttributeError"
    ELSE ""

\* main: apply_learned_noise_words(learned)
ApplyLearnedNoiseWords ==
    /\ pc = "start"
    /\ error' = noise_words_error(learned)
    /\ NOISE_WORDS' = IF error' = "TypeError" THEN NOISE_WORDS
                      ELSE apply_learned_noise_words(learned)
    /\ pc' = IF error' = "" THEN "loaded" ELSE "aborted"
    /\ UNCHANGED <<learned, paragraphs, runs, ref_para_idx, citation_set, raw_refs,
                   ref_suffixes, ref_set, ref_fuzzy_lookup, citation_fuzzy_lookup,
                   body, query, result>>
    /\ UNCHANGED <<store, report, run, mirror>>

\* main: ref_para_idx = find_references_heading_index(doc)
FindHeading ==
    /\ pc = "loaded"
    /\ ref_para_idx' = find_references_heading_index(paragraphs)
    /\ pc' = "located"
    /\ UNCHANGED <<NOISE_WORDS, learned, paragraphs, runs, citation_set, raw_refs,
                   ref_suffixes, ref_set, ref_fuzzy_lookup, citation_fuzzy_lookup,
                   body, query, result>>
    /\ UNCHANGED later

\* get_body_paragraphs: the paragraphs before the heading
get_body_paragraphs(paras, idx) == SubSeq(paras, 1, idx)

\* main: body_text = '\n\n'.join(p.text for p in body_paragraphs)
body_text_of(paras, idx) == join(get_body_paragraphs(paras, idx), "\n\n")

\* main: citation_set = extract_citations_from_text(body_text)
ExtractCitations ==
    /\ pc = "located"
    /\ citation_set' = extract_citations_from_text(body_text_of(paragraphs, ref_para_idx))
    /\ pc' = "cited"
    /\ UNCHANGED <<NOISE_WORDS, learned, paragraphs, runs, ref_para_idx, raw_refs,
                   ref_suffixes, ref_set, ref_fuzzy_lookup, citation_fuzzy_lookup,
                   body, query, result>>
    /\ UNCHANGED later

\* main: ref_set = extract_references_from_doc(doc, ref_para_idx)
ExtractReferences ==
    /\ pc = "cited"
    /\ raw_refs' = collect_raw_refs(paragraphs, ref_para_idx + 1)
    /\ ref_suffixes' = assign_suffixes(raw_refs', 1, <<>>)
    /\ ref_set' = extract_references_from_doc(paragraphs, ref_para_idx)
    /\ pc' = "extracted"
    /\ UNCHANGED <<NOISE_WORDS, learned, paragraphs, runs, ref_para_idx,
                   citation_set, ref_fuzzy_lookup, citation_fuzzy_lookup, body,
                   query, result>>
    /\ UNCHANGED later

\* main: ref_fuzzy_lookup = build_fuzzy_lookup(ref_set)
\*       citation_fuzzy_lookup = build_fuzzy_lookup(citation_set)
BuildLookup ==
    /\ pc = "extracted"
    /\ \E items \in IterationOrders(ref_set) :
           ref_fuzzy_lookup' = build_fuzzy_lookup(items)
    /\ \E items \in IterationOrders(citation_set) :
           citation_fuzzy_lookup' = build_fuzzy_lookup(items)
    /\ pc' = "indexed"
    /\ UNCHANGED <<NOISE_WORDS, learned, paragraphs, runs, ref_para_idx,
                   citation_set, raw_refs, ref_suffixes, ref_set, body, query,
                   result>>
    /\ UNCHANGED later

\* paragraph p was processed with the outcome h
Highlighted(p, h) ==
    /\ runs' = [runs EXCEPT ![p] = h.runs]
    /\ body' = [para |-> p, matched |-> h.matched,
                fuzzy_matched |-> h.fuzzy_matched, unmatched |-> h.unmatched,
                fuzzy_list |-> h.fuzzy_list, unmatched_list |-> h.unmatched_list,
                spans |-> h.spans, log |-> h.log, blocks |-> h.blocks]

\* highlight_body_citations: one pass of the loop over the body paragraphs
HighlightBodyParagraph ==
    /\ pc = "indexed"
    /\ body.para < ref_para_idx
    /\ Highlighted(body.para + 1,
                   highlight_paragraph(
                       [matched |-> body.matched, fuzzy_matched |-> body.fuzzy_matched,
                        unmatched |-> body.unmatched, fuzzy_list |-> body.fuzzy_list,
                        unmatched_list |-> body.unmatched_list, spans |-> body.spans,
                        runs |-> runs[body.para + 1], log |-> body.log,
                        blocks |-> body.blocks],
                       ref_set, ref_fuzzy_lookup))
    /\ UNCHANGED <<pc, NOISE_WORDS, learned, paragraphs, ref_para_idx, citation_set,
                   raw_refs, ref_suffixes, ref_set, ref_fuzzy_lookup,
                   citation_fuzzy_lookup, query, result>>
    /\ UNCHANGED later

\* highlight_body_citations returns after the last body paragraph; main
\* takes the counts and lists
ReturnBodyCounts ==
    /\ pc = "indexed"
    /\ body.para = ref_para_idx
    /\ report' = [report EXCEPT !.body_matched = body.matched,
                                !.body_fuzzy = body.fuzzy_matched,
                                !.body_unmatched = body.unmatched,
                                !.unmatched_list = body.unmatched_list,
                                !.fuzzy_cite_list = body.fuzzy_list]
    /\ pc' = "body_done"
    /\ UNCHANGED <<NOISE_WORDS, learned, paragraphs, runs, ref_para_idx, citation_set,
                   raw_refs, ref_suffixes, ref_set, ref_fuzzy_lookup,
                   citation_fuzzy_lookup, body, query, result>>
    /\ UNCHANGED <<store, run, error, mirror>>

\* what highlight_references returns, given what its loop finds
references_counted(r, h) ==
    [r EXCEPT !.ref_cited = h.cited_count, !.ref_fuzzy = h.fuzzy_count,
              !.ref_uncited = h.uncited_count, !.uncited_list = h.uncited_list,
              !.fuzzy_ref_list = h.fuzzy_list]

\* the two effects of highlight_references
ReferencesHighlighted(entries) ==
    /\ runs' = reference_runs(runs, ref_para_idx, entries)
    /\ report' = references_counted(report, count_references(RefsStart, entries, 1))

\* main: highlight_references(doc, ref_para_idx, citation_set,
\*                            citation_fuzzy_lookup)
HighlightReferences ==
    /\ pc = "body_done"
    /\ ReferencesHighlighted(reference_entries(paragraphs, ref_para_idx, citation_set,
                                               citation_fuzzy_lookup))
    /\ pc' = "refs_done"
    /\ UNCHANGED <<NOISE_WORDS, learned, paragraphs, ref_para_idx, citation_set,
                   raw_refs, ref_suffixes, ref_set, ref_fuzzy_lookup,
                   citation_fuzzy_lookup, body, query, result>>
    /\ UNCHANGED <<store, run, error, mirror>>

\* (m.group(1).lower(), m.group(2)) if m, else None
parsed_key(c, m) ==
    IF m.s = 0 THEN None ELSE <<lower(group(c, m, 1)), group(c, m, 2)>>

\* the key under which cite_lookup or ref_lookup holds the string c
key_of_str(c) == parsed_key(c, re_match(RE_CITE_STR, c))

keys_of_strs(strs) == [n \in DOMAIN strs |-> key_of_str(strs[n])]

\* the types that cannot be hashed
UNHASHABLE == {"list", "dict"}

places_under_any_year(keys, author, year) ==
    {n \in DOMAIN keys : keys[n] # None /\ keys[n][1] = author}

\* the places of the strings that the lookup holds under (author, year)
places_under(keys, author, year) ==
    {n \in DOMAIN keys : year.t = "str" /\ keys[n] = <<author, year.v>>}

\* lookup[key]: the last string that was entered under the key
looked_up(strs, places) == strs[CHOOSE n \in places : \A m \in places : m <= n]

\* cm.get('author', '').lower()
author_of_record(cm) == lower(dict_get(cm, "author", JStr("")).v)

\* the exception the loop body ends with for the record cm, "" if none
record_error(cm, cite_keys) ==
    IF cm.t # "dict" THEN "AttributeError"
    ELSE IF dict_get(cm, "author", JStr("")).t # "str" THEN "AttributeError"
    ELSE IF dict_get(cm, "cite_year", JStr("")).t \in UNHASHABLE THEN "TypeError"
    ELSE IF /\ places_under(cite_keys, author_of_record(cm),
                            dict_get(cm, "cite_year", JStr(""))) # {}
            /\ dict_get(cm, "ref_year", JStr("")).t \in UNHASHABLE
         THEN "TypeError"
    ELSE ""

\* what the record cm adds to auto_matches, given where its two keys are
auto_match_at(cm, unmatched_citations, cite_places, uncited_refs, ref_places) ==
    IF cite_places # {} /\ ref_places # {}
    THEN <<<<looked_up(unmatched_citations, cite_places),
             looked_up(uncited_refs, ref_places),
             dict_get(cm, "reason",
                      JStr("learned from previous Opus verification")).v>>>>
    ELSE <<>>

\* the body of the loop over learned['cross_matches']
auto_match_of(cm, unmatched_citations, cite_keys, uncited_refs, ref_keys) ==
    auto_match_at(cm,
        unmatched_citations,
        places_under(cite_keys, author_of_record(cm), dict_get(cm, "cite_year", JStr(""))),
        uncited_refs,
        places_under(ref_keys, author_of_record(cm), dict_get(cm, "ref_year", JStr(""))))

RECURSIVE auto_matches_of(_, _, _, _, _, _)
auto_matches_of(records, n, unmatched_citations, cite_keys, uncited_refs, ref_keys) ==
    IF n > Len(records) THEN <<>>
    ELSE auto_match_of(records[n], unmatched_citations, cite_keys, uncited_refs, ref_keys)
         \o auto_matches_of(records, n + 1, unmatched_citations, cite_keys,
                            uncited_refs, ref_keys)

\* the first exception of the loop over the records, "" if there is none
cross_matches_error_in(records, cite_keys) ==
    IF {n \in DOMAIN records : record_error(records[n], cite_keys) # ""} = {} THEN ""
    ELSE record_error(
             records[MinOf({n \in DOMAIN records :
                               record_error(records[n], cite_keys) # ""})],
             cite_keys)

\* the exception apply_learned_cross_matches ends with, "" if it returns
cross_matches_error(patterns, cite_keys) ==
    IF ~truthy(patterns.cross_matches) THEN ""
    ELSE cross_matches_error_in(iterate(patterns.cross_matches), cite_keys)

\* auto_matches, given the keys of the strings of the two lists
cross_matches_found(patterns, unmatched_citations, cite_keys, uncited_refs, ref_keys) ==
    IF ~truthy(patterns.cross_matches) THEN <<>>
    ELSE auto_matches_of(iterate(patterns.cross_matches), 1, unmatched_citations,
                         cite_keys, uncited_refs, ref_keys)

\* the keys of the first k of the strings whose keys are keys, and of the rest
first_keys(keys, k) == SubSeq(keys, 1, k)
other_keys(keys, k) == SubSeq(keys, k + 1, Len(keys))

\* apply_learned_cross_matches, given the keys of the strings of the two
\* lists one after the other
cross_matches_with(patterns, unmatched_citations, uncited_refs, keys) ==
    cross_matches_found(patterns,
                        unmatched_citations, first_keys(keys, Len(unmatched_citations)),
                        uncited_refs, other_keys(keys, Len(unmatched_citations)))

apply_learned_cross_matches(patterns, unmatched_citations, uncited_refs) ==
    cross_matches_with(patterns, unmatched_citations, uncited_refs,
                       keys_of_strs(unmatched_citations \o uncited_refs))

\* main: auto_matches = apply_learned_cross_matches(learned, unmatched_list,
\*                                                 uncited_list)
ApplyLearnedCrossMatches ==
    /\ pc = "refs_done"
    /\ error' = cross_matches_error(learned, keys_of_strs(report.unmatched_list))
    /\ report' = IF error' # "" THEN report
                 ELSE [report EXCEPT !.auto_matches =
                          apply_learned_cross_matches(learned, report.unmatched_list,
                                                      report.uncited_list)]
    /\ pc' = IF error' = "" THEN "adapted" ELSE "aborted"
    /\ UNCHANGED <<NOISE_WORDS, learned, paragraphs, runs, ref_para_idx, citation_set,
                   raw_refs, ref_suffixes, ref_set, ref_fuzzy_lookup,
                   citation_fuzzy_lookup, body, query, result>>
    /\ UNCHANGED <<store, run, mirror>>

\* list.remove(x): the first x goes
remove_first(list, x) ==
    SubSeq(list, 1, MinOf({n \in DOMAIN list : list[n] = x}) - 1)
    \o SubSeq(list, MinOf({n \in DOMAIN list : list[n] = x}) + 1, Len(list))

\* a loop body that moves the string and leaves body_unmatched alone
reclassify_citation_keeping_count(r, cite_string) ==
    IF cite_string \in SeqToSet(r.unmatched_list)
    THEN [r EXCEPT !.unmatched_list = remove_first(@, cite_string),
                   !.fuzzy_cite_list = Append(@, cite_string),
                   !.body_fuzzy = @ + 1]
    ELSE r

\* if cite_str in unmatched_list: ...
reclassify_citation(r, cite_string) ==
    IF cite_string \in SeqToSet(r.unmatched_list)
    THEN [r EXCEPT !.unmatched_list = remove_first(@, cite_string),
                   !.fuzzy_cite_list = Append(@, cite_string),
                   !.body_unmatched = @ - 1,
                   !.body_fuzzy = @ + 1]
    ELSE r

\* if ref_str in uncited_list: ...
reclassify_reference(r, ref_string) ==
    IF ref_string \in SeqToSet(r.uncited_list)
    THEN [r EXCEPT !.uncited_list = remove_first(@, ref_string),
                   !.fuzzy_ref_list = Append(@, ref_string),
                   !.ref_uncited = @ - 1,
                   !.ref_fuzzy = @ + 1]
    ELSE r

\* for cite_str, ref_str, reason in auto_matches: ...
RECURSIVE reclassify(_, _)
reclassify(r, n) ==
    IF n > Len(r.auto_matches) THEN r
    ELSE reclassify(reclassify_reference(reclassify_citation(r, r.auto_matches[n][1]),
                                         r.auto_matches[n][2]),
                    n + 1)

\* main: the loop that moves the learned cross-matches to the fuzzy lists
Reclassify ==
    /\ pc = "adapted"
    /\ report' = reclassify(report, 1)
    /\ pc' = "reclassified"
    /\ UNCHANGED <<NOISE_WORDS, learned, paragraphs, runs, ref_para_idx, citation_set,
                   raw_refs, ref_suffixes, ref_set, ref_fuzzy_lookup,
                   citation_fuzzy_lookup, body, query, result>>
    /\ UNCHANGED <<store, run, error, mirror>>

\* results_json: the counts and, as sets, the lists that are sorted(set(...))
results_of(r) ==
    [body_matched |-> r.body_matched, body_fuzzy |-> r.body_fuzzy,
     body_unmatched |-> r.body_unmatched, ref_cited |-> r.ref_cited,
     ref_fuzzy |-> r.ref_fuzzy, ref_uncited |-> r.ref_uncited,
     fuzzy_matches |-> SeqToSet(r.fuzzy_cite_list \o r.fuzzy_ref_list),
     unmatched_citations |-> SeqToSet(r.unmatched_list),
     uncited_references |-> SeqToSet(r.uncited_list)]

\* main: results_json is built and written
SaveResults ==
    /\ pc = "reclassified"
    /\ report' = [report EXCEPT !.results_json = results_of(report)]
    /\ pc' = "done"
    /\ UNCHANGED <<NOISE_WORDS, learned, paragraphs, runs, ref_para_idx, citation_set,
                   raw_refs, ref_suffixes, ref_set, ref_fuzzy_lookup,
                   citation_fuzzy_lookup, body, query, result>>
    /\ UNCHANGED <<store, run, error, mirror>>

MatchSurnames == {"Freud", "Klein"}
MatchYears    == {"1912", "1912a", "1912b", "1946"}
MatchKeys     == MatchSurnames \X MatchYears

\* the keys asked about: those above, the keys of the reference set, and
\* these without their suffix
Queries ==
    MatchKeys \cup ref_set \cup {<<k[1], strip_year_suffix(k[2])>> : k \in ref_set}

\* a call fuzzy_match_citation(surname, year, ref_set, ref_fuzzy_lookup)
MatchCitation ==
    /\ pc = "indexed"
    /\ \E k \in Queries :
           /\ query' = k
           /\ result' = fuzzy_match_citation(k[1], k[2], ref_set, ref_fuzzy_lookup)
    /\ pc' = "matched"
    /\ UNCHANGED <<NOISE_WORDS, learned, paragraphs, runs, ref_para_idx,
                   citation_set, raw_refs, ref_suffixes, ref_set, ref_fuzzy_lookup,
                   citation_fuzzy_lookup, body>>
    /\ UNCHANGED later

\* a call fuzzy_match_reference with the arguments of the call of
\* fuzzy_match_citation before it
MatchReference ==
    /\ pc = "matched"
    /\ mirror' = fuzzy_match_reference(query[1], query[2], ref_set, ref_fuzzy_lookup)
    /\ pc' = "mirrored"
    /\ UNCHANGED <<NOISE_WORDS, learned, paragraphs, runs, ref_para_idx,
                   citation_set, raw_refs, ref_suffixes, ref_set, ref_fuzzy_lookup,
                   citation_fuzzy_lookup, body, query, result>>
    /\ UNCHANGED <<store, report, run, error>>

(***************************************************************************)
(* The matcher on its own: a reference set, its index, then lookups.       *)
(***************************************************************************)
MaxKeys == 3

InitMatch ==
    /\ pc = "extracted"
    /\ NOISE_WORDS = STATIC_NOISE_WORDS
    /\ learned = NoPatterns
    /\ paragraphs = <<>>
    /\ runs = <<>>
    /\ ref_para_idx = 0
    /\ citation_set = {}
    /\ raw_refs = <<>>
    /\ ref_suffixes = <<>>
    /\ ref_set \in {S \in SUBSET MatchKeys : Cardinality(S) <= MaxKeys}
    /\ ref_fuzzy_lookup = <<>>
    /\ citation_fuzzy_lookup = <<>>
    /\ body = BodyStart
    /\ query = None
    /\ result = None
    /\ NothingLater

NextMatch == BuildLookup \/ MatchCitation \/ MatchReference

SpecMatch == InitMatch /\ [][NextMatch]_vars

(***************************************************************************)
(* The bibliography on its own: a heading, the entries after it, the       *)
(* reference set and its index, then lookups.                              *)
(***************************************************************************)
MaxRefParas == 3

RefEntries ==
    {"Klein, M. (1946).",
     "Klein, M. (1946a). Envy.",
     "%Freud, S. (1912). Papers.",
     "The Press (1999). Style.",
     "de Waal, F. (2009). Age.",
     "X, Malcolm (1965). Speeches.",
     "Undated entry, n.d."}

InitRefs ==
    /\ pc = "loaded"
    /\ NOISE_WORDS = STATIC_NOISE_WORDS
    /\ learned = NoPatterns
    /\ paragraphs \in {<<"References">> \o q : q \in SeqsUpTo(RefEntries, MaxRefParas)}
    /\ runs = OneRunEach(paragraphs)
    /\ ref_para_idx = 0
    /\ citation_set = {}
    /\ raw_refs = <<>>
    /\ ref_suffixes = <<>>
    /\ ref_set = {}
    /\ ref_fuzzy_lookup = <<>>
    /\ citation_fuzzy_lookup = <<>>
    /\ body = BodyStart
    /\ query = None
    /\ result = None
    /\ NothingLater

NextRefs ==
    FindHeading \/ ExtractCitations \/ ExtractReferences \/ BuildLookup \/ MatchCitation

SpecRefs == InitRefs /\ [][NextRefs]_vars

(***************************************************************************)
(* The run on a document: learned words, heading, both key sets, the       *)
(* indexes, then the body paragraphs one after the other.                  *)
(***************************************************************************)
MaxBodyParas == 1

BodyParas ==
    {"Freud (1912a) and then Smith (2009).",
     "(Gelso, 2009; 2014)",
     "Freud's reading of Smith [2009] (1912)",
     "Smith et al. (2009; Jones, 2015)",
     "(Vincent van Gogh, 1889)",
     "Stiles and colleagues (2009; Lee, 2015)",
     "[Smith, 2009; Jones, 2010a]",
     "stiles (2009) and therapy (2001)",
     "Kernberg#s view (see Smith, 2009; 1975)",
     "Smith% (2009)",
     "  "}

Bibliographies ==
    {<<>>,
     <<"References", "Smith, J. (2009). Title.", "Freud, S. (1912). Papers.">>,
     <<"Bibliography", "Smith, J. (2009a). One.", "Smith, J. (2009b). Two.",
       "van Gogh, V. (1889). Letters.">>}

LearnedNoiseWords == {JList(<<>>), JList(<<JStr("Smith")>>)}

Init ==
    /\ pc = "start"
    /\ NOISE_WORDS = STATIC_NOISE_WORDS
    /\ learned \in {[NoPatterns EXCEPT !.noise_words = w] : w \in LearnedNoiseWords}
    /\ paragraphs \in {b \o r : b \in SeqsUpTo(BodyParas, MaxBodyParas),
                               r \in Bibliographies}
    /\ runs = OneRunEach(paragraphs)
    /\ ref_para_idx = 0
    /\ citation_set = {}
    /\ raw_refs = <<>>
    /\ ref_suffixes = <<>>
    /\ ref_set = {}
    /\ ref_fuzzy_lookup = <<>>
    /\ citation_fuzzy_lookup = <<>>
    /\ body = BodyStart
    /\ query = None
    /\ result = None
    /\ NothingLater

Next ==
    \/ ApplyLearnedNoiseWords
    \/ FindHeading
    \/ ExtractCitations
    \/ ExtractReferences
    \/ BuildLookup
    \/ HighlightBodyParagraph
    \/ ReturnBodyCounts

Spec == Init /\ [][Next]_vars

(***************************************************************************)
(* A whole call of main: a store file and a document, then every step up   *)
(* to the results.                                                         *)
(***************************************************************************)
\* documents: a parenthetical with a year that inherits its author; one
\* with a surname of two letters; a citation that occurs twice; a block with
\* an exact and a fuzzy key, a block of exact keys and a block with a fuzzy
\* and an unmatched key; entries under no heading; a bibliography with an
\* entry without a year and an entry with a right-to-left mark after the
\* year; two paragraphs in which a parenthetical and the match of a later
\* recognizer touch; no paragraph at all
Documents ==
    {<<"(Gelso, 2009; 2014)", "References", "Gelso, C. (2009). Book.">>,
     <<"(Smith, 2009; Li, 2010)", "References", "Smith, J. (2009). Title.">>,
     <<"Smith (2010) wrote. Smith (2010) again.", "References",
       "Smith, J. (2009). Title.">>,
     <<"[Smith, 2009; Freud, 1912a]", "(Smith, 2009; Freud, 1912)",
       "(Freud, 1912a; Jones, 2015)", "References",
       "Smith, J. (2009). Title.", "Freud, S. (1912). Papers.">>,
     <<"Freud (1912a) and then Smith (2009).", "Smith, J. (2009). Title.">>,
     <<"Smith (2009) wrote.", "References", "Undated entry, n.d.",
       "Smith, J. (2009). Title.", "Jones, A. (2015" \o RLM \o "). Book.">>,
     <<"Stiles and colleagues (2009; Lee, 2015)", "Smith et al. (2009; Jones, 2015)",
       "References", "Smith, J. (2009). Title.">>,
     <<>>}

\* a cross-match record of the store
CrossMatch(author, cite_year, ref_year) ==
    JDict(<<<<"author", JStr(author)>>, <<"cite_year", JStr(cite_year)>>,
            <<"ref_year", JStr(ref_year)>>>>)

\* store files main loads without an exception
UsableStores ==
    {[kind |-> "missing", data |-> JNull],
     [kind |-> "unreadable", data |-> JNull],
     [kind |-> "unparseable", data |-> JNull],
     [kind |-> "json", data |-> JDict(<<>>)],
     [kind |-> "json",
      data |-> JDict(<<<<"noise_words", JList(<<JStr("Smith")>>)>>>>)],
     [kind |-> "json",
      data |-> JDict(<<<<"cross_matches",
                         JList(<<CrossMatch("SMITH", "2010", "2009")>>)>>>>)],
     [kind |-> "json",
      data |-> JDict(<<<<"cross_matches",
                         JList(<<CrossMatch("Smith", "2010", "2011"),
                                 CrossMatch("Freud", "1912", "1912")>>)>>>>)],
     [kind |-> "json",
      data |-> JDict(<<<<"cross_matches",
                         JList(<<CrossMatch("SMITH", "2010", "2009"),
                                 CrossMatch("smith", "2010", "2009")>>)>>>>)]}

\* store files of valid JSON that is not what the program writes: a list
\* at the top, a word that is a number, null for the words, a record that
\* is a string
OtherStores ==
    {[kind |-> "json", data |-> JList(<<>>)],
     [kind |-> "json", data |-> JDict(<<<<"noise_words", JList(<<JNum(1)>>)>>>>)],
     [kind |-> "json", data |-> JDict(<<<<"noise_words", JNull>>>>)],
     [kind |-> "json",
      data |-> JDict(<<<<"cross_matches", JList(<<JStr("Smith 2010")>>)>>>>)]}

InitRun ==
    /\ pc = "boot"
    /\ NOISE_WORDS = STATIC_NOISE_WORDS
    /\ learned = NoPatterns
    /\ paragraphs \in Documents
    /\ runs = OneRunEach(paragraphs)
    /\ ref_para_idx = 0
    /\ citation_set = {}
    /\ raw_refs = <<>>
    /\ ref_suffixes = <<>>
    /\ ref_set = {}
    /\ ref_fuzzy_lookup = <<>>
    /\ citation_fuzzy_lookup = <<>>
    /\ body = BodyStart
    /\ query = None
    /\ result = None
    /\ store \in UsableStores \cup OtherStores
    /\ report = ReportStart
    /\ run = 1
    /\ error = ""
    /\ mirror = None

NextRun ==
    \/ LoadLearnedPatterns
    \/ ApplyLearnedNoiseWords
    \/ FindHeading
    \/ ExtractCitations
    \/ ExtractReferences
    \/ BuildLookup
    \/ HighlightBodyParagraph
    \/ ReturnBodyCounts
    \/ HighlightReferences
    \/ ApplyLearnedCrossMatches
    \/ Reclassify
    \/ SaveResults

SpecRun == InitRun /\ [][NextRun]_vars

(***************************************************************************)
(* main called again in the same process, as a program that imports the    *)
(* module can do: the module-level NOISE_WORDS is what the call before     *)
(* left, the locals of main start afresh.                                  *)
(***************************************************************************)
MaxRuns == 2

MainAgain ==
    /\ pc = "done"
    /\ run < MaxRuns
    /\ run' = run + 1
    /\ pc' = "boot"
    /\ store' \in UsableStores \cup OtherStores
    /\ paragraphs' \in Documents
    /\ runs' = OneRunEach(paragraphs')
    /\ learned' = NoPatterns
    /\ ref_para_idx' = 0
    /\ citation_set' = {}
    /\ raw_refs' = <<>>
    /\ ref_suffixes' = <<>>
    /\ ref_set' = {}
    /\ ref_fuzzy_lookup' = <<>>
    /\ citation_fuzzy_lookup' = <<>>
    /\ body' = BodyStart
    /\ report' = ReportStart
    /\ error' = ""
    /\ UNCHANGED <<NOISE_WORDS, query, result, mirror>>

NextRuns == NextRun \/ MainAgain

SpecRuns == InitRun /\ [][NextRuns]_vars

(***************************************************************************)
(* The text functions on their own: a text, then strip_year_suffix once    *)
(* and once more on what it returned, or the two normalizers.              *)
(***************************************************************************)
MaxYearLen == 3
MaxTextLen == 2

\* characters of a year, and a line break
YearChars == {"1", "a", "b", "\n"}

\* the characters the normalizers replace or remove, and a letter
TextChars ==
    {LSQUO, RSQUO, LDQUO, RDQUO, HYPHEN, NBHYPHEN, FIGDASH, NDASH, RLM, LRM, ZWSP,
     "a"}

\* the strings over chars of length at most n
RECURSIVE StringsUpTo(_, _)
StringsUpTo(chars, n) ==
    IF n = 0 THEN {""}
    ELSE LET shorter == StringsUpTo(chars, n - 1) IN
         shorter \cup {t \o c : t \in shorter, c \in chars}

InitText ==
    /\ pc = "text"
    /\ NOISE_WORDS = STATIC_NOISE_WORDS
    /\ learned = NoPatterns
    /\ paragraphs = <<>>
    /\ runs = <<>>
    /\ ref_para_idx = 0
    /\ citation_set = {}
    /\ raw_refs = <<>>
    /\ ref_suffixes = <<>>
    /\ ref_set = {}
    /\ ref_fuzzy_lookup = <<>>
    /\ citation_fuzzy_lookup = <<>>
    /\ body = BodyStart
    /\ query \in StringsUpTo(YearChars, MaxYearLen) \cup StringsUpTo(TextChars, MaxTextLen)
    /\ result = <<>>
    /\ NothingLater

\* the rest of the state, which the text functions do not touch
beside_text ==
    <<NOISE_WORDS, learned, paragraphs, runs, ref_para_idx, citation_set, raw_refs,
      ref_suffixes, ref_set, ref_fuzzy_lookup, citation_fuzzy_lookup, body, query>>

\* a call strip_year_suffix(year): on the text, then on what the call before
\* returned
StripYearSuffix ==
    /\ pc \in {"text", "stripped"}
    /\ result' = Append(result,
                        strip_year_suffix(IF pc = "text" THEN query
                                          ELSE result[Len(result)]))
    /\ pc' = IF pc = "text" THEN "stripped" ELSE "stripped_again"
    /\ UNCHANGED beside_text
    /\ UNCHANGED later

\* a call normalize_for_highlight(text)
NormalizeForHighlight ==
    /\ pc = "text"
    /\ result' = <<normalize_for_highlight(query)>>
    /\ pc' = "for_highlight"
    /\ UNCHANGED beside_text
    /\ UNCHANGED later

\* a call normalize_text(text) on the same text
NormalizeText ==
    /\ pc = "for_highlight"
    /\ result' = Append(result, normalize_text(query))
    /\ pc' = "normalized"
    /\ UNCHANGED beside_text
    /\ UNCHANGED later

NextText == StripYearSuffix \/ NormalizeForHighlight \/ NormalizeText

SpecText == InitText /\ [][NextText]_vars

(***************************************************************************)
(* highlight_span_in_paragraph on its own: one paragraph in some division  *)
(* into runs, then calls with spans inside its text. query is the last     *)
(* call, result the runs before it.                                        *)
(***************************************************************************)
MaxPieces == 4

\* one run of text; two runs, the first highlighted; a run without text
\* between two others; a run whose children are w:t, w:tab, w:t; a run of
\* text before a highlighted run with a line break element
RunLayouts ==
    {<<a_run("abcd", "", NO_HIGHLIGHT)>>,
     <<a_run("ab", "", GREEN_HIGHLIGHT), a_run("cd", "", NO_HIGHLIGHT)>>,
     <<a_run("a", "", NO_HIGHLIGHT), a_run("", "", NO_HIGHLIGHT),
       a_run("bc", "", GREEN_HIGHLIGHT)>>,
     <<a_run("a\tb", "\t", NO_HIGHLIGHT)>>,
     <<a_run("ab", "", NO_HIGHLIGHT), a_run("c\nd", "\n", GREEN_HIGHLIGHT)>>}

InitMark ==
    /\ pc = "marking"
    /\ NOISE_WORDS = STATIC_NOISE_WORDS
    /\ learned = NoPatterns
    /\ \E layout \in RunLayouts :
           /\ runs = <<layout>>
           /\ paragraphs = <<para_text(layout)>>
    /\ ref_para_idx = 0
    /\ citation_set = {}
    /\ raw_refs = <<>>
    /\ ref_suffixes = <<>>
    /\ ref_set = {}
    /\ ref_fuzzy_lookup = <<>>
    /\ citation_fuzzy_lookup = <<>>
    /\ body = BodyStart
    /\ query = None
    /\ result = None
    /\ NothingLater

\* a call highlight_span_in_paragraph(para, char_start, char_end, color_index)
MarkSpan ==
    /\ pc = "marking"
    /\ Len(runs[1]) < MaxPieces
    /\ \E char_start \in 0..Len(para_text(runs[1])) :
       \E char_end \in char_start..Len(para_text(runs[1])) :
           /\ query' = [char_start |-> char_start, char_end |-> char_end,
                        color_index |-> YELLOW_HIGHLIGHT]
           /\ runs' = <<highlight_span_in_paragraph(runs[1], char_start, char_end,
                                                    YELLOW_HIGHLIGHT)>>
    /\ result' = runs[1]
    /\ UNCHANGED <<pc, NOISE_WORDS, learned, paragraphs, ref_para_idx, citation_set,
                   raw_refs, ref_suffixes, ref_set, ref_fuzzy_lookup,
                   citation_fuzzy_lookup, body>>
    /\ UNCHANGED later

NextMark == MarkSpan

SpecMark == InitMark /\ [][NextMark]_vars

(***************************************************************************)
(* A bibliography that lists one work many times: a heading and up to      *)
(* MaxSameKey copies of one entry without suffix.                          *)
(***************************************************************************)
MaxSameKey == 27

RepeatedEntries == {"Klein, M. (1946).", "Freud, S. (1912). Papers."}

copies(entry, n) == [i \in 1..n |-> entry]

InitSuffix ==
    /\ pc = "loaded"
    /\ NOISE_WORDS = STATIC_NOISE_WORDS
    /\ learned = NoPatterns
    /\ \E entry \in RepeatedEntries, n \in 0..MaxSameKey :
           paragraphs = <<"References">> \o copies(entry, n)
    /\ runs = OneRunEach(paragraphs)
    /\ ref_para_idx = 0
    /\ citation_set = {}
    /\ raw_refs = <<>>
    /\ ref_suffixes = <<>>
    /\ ref_set = {}
    /\ ref_fuzzy_lookup = <<>>
    /\ citation_fuzzy_lookup = <<>>
    /\ body = BodyStart
    /\ query = None
    /\ result = None
    /\ NothingLater

NextSuffix == FindHeading \/ ExtractCitations \/ ExtractReferences

SpecSuffix == InitSuffix /\ [][NextSuffix]_vars

(***************************************************************************)
(* ref_verify: the references are numbered from 1 and put into batches.    *)
(* query is the number of references and the batch size, result the        *)
(* batches made so far.                                                    *)
(***************************************************************************)
MaxRefCount  == 7
MaxBatchSize == 4

\* references: of each entry only "num" matters to the batching
numbered(n) == [i \in 1..n |-> [num |-> i]]

min(a, b) == IF a <= b THEN a ELSE b

num_batches_rounded_down(n, batch_size) == n \div batch_size

\* num_batches = (len(references) + batch_size - 1) // batch_size
num_batches_of(n, batch_size) == (n + batch_size - 1) \div batch_size

\* the dict appended for batch_refs, the b-th slice counted from 0
batch_with(b, batch_refs) ==
    [batch_num  |-> b + 1,
     ref_start  |-> batch_refs[1].num,
     ref_end    |-> batch_refs[Len(batch_refs)].num,
     count      |-> Len(batch_refs),
     references |-> batch_refs]

\* batch_refs = references[start:end]
batch_of(references, b, batch_size) ==
    batch_with(b, SubSeq(references, b * batch_size + 1,
                         min(b * batch_size + batch_size, Len(references))))

InitBatch ==
    /\ pc = "parsed"
    /\ NOISE_WORDS = STATIC_NOISE_WORDS
    /\ learned = NoPatterns
    /\ paragraphs = <<>>
    /\ runs = <<>>
    /\ ref_para_idx = 0
    /\ citation_set = {}
    /\ raw_refs = <<>>
    /\ ref_suffixes = <<>>
    /\ ref_set = {}
    /\ ref_fuzzy_lookup = <<>>
    /\ citation_fuzzy_lookup = <<>>
    /\ body = BodyStart
    /\ query \in [n : 0..MaxRefCount, batch_size : 1..MaxBatchSize]
    /\ result = None
    /\ NothingLater

\* main: num_batches is computed, batches = []
CountBatches ==
    /\ pc = "parsed"
    /\ result' = [num_batches |-> num_batches_of(query.n, query.batch_size),
                  batches |-> <<>>]
    /\ pc' = "batching"
    /\ UNCHANGED beside_text
    /\ UNCHANGED later

\* main: one pass of the loop for b in range(num_batches)
AppendBatch ==
    /\ pc = "batching"
    /\ Len(result.batches) < result.num_batches
    /\ result' = [result EXCEPT !.batches =
                     Append(@, batch_of(numbered(query.n), Len(result.batches),
                                        query.batch_size))]
    /\ UNCHANGED pc
    /\ UNCHANGED beside_text
    /\ UNCHANGED later

\* main: the loop is over, output is built
WriteBatches ==
    /\ pc = "batching"
    /\ Len(result.batches) = result.num_batches
    /\ pc' = "batched"
    /\ UNCHANGED result
    /\ UNCHANGED beside_text
    /\ UNCHANGED later

NextBatch == CountBatches \/ AppendBatch \/ WriteBatches

SpecBatch == InitBatch /\ [][NextBatch]_vars

(***************************************************************************)
(* Claims about the matcher                                                *)
(***************************************************************************)
\* a year carries a suffix when it ends in a lowercase letter
HasSuffix(y) == y # "" /\ Ch(y, Len(y)) \in LowerSet
BaseOf(y)    == IF HasSuffix(y) THEN SubSeq(y, 1, Len(y) - 1) ELSE y

\* the candidates the index lists under (s, base(y)) whose year is not y
OtherYearCandidates(s, y, lookup) ==
    IF <<s, BaseOf(y)>> \in DOMAIN lookup
    THEN {lookup[<<s, BaseOf(y)>>][n] : n \in DOMAIN lookup[<<s, BaseOf(y)>>]}
         \ {<<s, y>>}
    ELSE {}

\* the results the four steps allow, tried in their order
FourSteps(s, y, refs, lookup) ==
    IF <<s, y>> \in refs THEN {<<"exact", <<s, y>>>>}
    ELSE IF HasSuffix(y) /\ <<s, BaseOf(y)>> \in refs
         THEN {<<"fuzzy", <<s, BaseOf(y)>>>>}
    ELSE IF OtherYearCandidates(s, y, lookup) # {}
         THEN {<<"fuzzy", k>> : k \in OtherYearCandidates(s, y, lookup)}
    ELSE {<<"none", None>>}

\* C1: fuzzy_match_citation returns the first of the four steps that applies:
\* Exact(s, y) if (s, y) is in R; else Fuzzy(s, base(y)) if y has a suffix and
\* (s, base(y)) is in R; else Fuzzy(k) for a candidate k listed under
\* (s, base(y)) with another year string; else None.
C1_FourStepsInOrder ==
    pc = "matched" =>
        result \in FourSteps(query[1], query[2], ref_set, ref_fuzzy_lookup)

\* step 2 and step 3 both apply, and step 2 decided
C1_Witness ==
    /\ pc = "matched"
    /\ <<query[1], query[2]>> \notin ref_set
    /\ HasSuffix(query[2])
    /\ <<query[1], BaseOf(query[2])>> \in ref_set
    /\ \E k \in OtherYearCandidates(query[1], query[2], ref_fuzzy_lookup) :
           HasSuffix(k[2])
    /\ result = <<"fuzzy", <<query[1], BaseOf(query[2])>>>>

\* C2: fuzzy symmetry: a fuzzy result names a key of the reference set, with
\* the surname that was asked for.
C2_FuzzySymmetry ==
    (pc = "matched" /\ result[1] = "fuzzy") =>
        (result[2] \in ref_set /\ result[2][1] = query[1])

\* a fuzzy result that came from the index (step 3)
C2_Witness ==
    /\ pc = "matched"
    /\ result[1] = "fuzzy"
    /\ result[2] # <<query[1], BaseOf(query[2])>>

\* the keys of the reference set with the surname s and the base year of y
SameBaseKeys(s, y) == {k \in ref_set : k[1] = s /\ BaseOf(k[2]) = BaseOf(y)}

\* C27: with the index built from the reference set, fuzzy_match_citation
\* returns None exactly when the set holds no key with the surname asked for
\* and the base year of the year asked for, whatever the order of the index.
C27_NoneIffNoSameBase ==
    pc = "matched" =>
        (result[1] = "none" <=> SameBaseKeys(query[1], query[2]) = {})

\* the citation carries the suffix a, the only reference of that surname and
\* base year the suffix b
C27_Witness ==
    /\ pc = "matched"
    /\ query = <<"Freud", "1912a">>
    /\ SameBaseKeys("Freud", "1912a") = {<<"Freud", "1912b">>}
    /\ result = <<"fuzzy", <<"Freud", "1912b">>>>

\* C15: fuzzy_match_reference, given the surname, the year, the key set and
\* the index that fuzzy_match_citation was given, returns the same tag and
\* the same key.
C15_MirrorAgrees ==
    pc = "mirrored" => mirror = result

\* both were asked and both found the key in the index
C15_Witness ==
    /\ pc = "mirrored"
    /\ mirror[1] = "fuzzy"
    /\ mirror[2] # <<query[1], BaseOf(query[2])>>
    /\ mirror[2] \in OtherYearCandidates(query[1], query[2], ref_fuzzy_lookup)

(***************************************************************************)
(* Claims about the reference extractor                                    *)
(***************************************************************************)
Extracted == pc \in {"extracted", "indexed", "matched"}

\* the entries of raw_refs with surname b[1] and base year b[2]
GroupOf(b) ==
    {n \in DOMAIN raw_refs : raw_refs[n][1] = b[1] /\ BaseOf(raw_refs[n][2]) = b[2]}

Groups == {<<raw_refs[n][1], BaseOf(raw_refs[n][2])>> : n \in DOMAIN raw_refs}

\* the place of entry n among the entries of G, in document order
RankIn(G, n) == Cardinality({m \in G : m <= n})

\* the keys of the reference set with surname b[1] and base year b[2]
KeysOfGroup(b) == {k \in ref_set : k[1] = b[1] /\ BaseOf(k[2]) = b[2]}

Letter(k) == Ch(LowerStr, k)

KleinEntry == "Klein, M. (1946)."

\* C5: in a group of several entries that carry no suffix, the k-th entry in
\* document order is given the k-th letter and the reference set holds each
\* suffixed key and the unsuffixed key; an entry whose (surname, base year)
\* occurs once is given no suffix; two entries "Klein, M. (1946)." give
\* exactly (Klein,1946a), (Klein,1946b), (Klein,1946).
C5_SuffixAutoAssignment ==
    Extracted =>
        /\ \A b \in Groups :
              LET G == GroupOf(b) IN
              /\ (Cardinality(G) > 1 /\ \A n \in G : ~HasSuffix(raw_refs[n][2])) =>
                    /\ \A n \in G : ref_suffixes[n] = Letter(RankIn(G, n))
                    /\ KeysOfGroup(b) =
                          {b} \cup {<<b[1], b[2] \o Letter(k)>> : k \in 1..Cardinality(G)}
              /\ Cardinality(G) = 1 =>
                    /\ \A n \in G : ref_suffixes[n] = ""
                    /\ KeysOfGroup(b) = {<<raw_refs[n][1], raw_refs[n][2]>> : n \in G}
        /\ paragraphs = <<"References", KleinEntry, KleinEntry>> =>
              ref_set = {<<"Klein", "1946a">>, <<"Klein", "1946b">>, <<"Klein", "1946">>}

C5_Witness ==
    /\ pc = "extracted"
    /\ paragraphs = <<"References", KleinEntry, "The Press (1999). Style.", KleinEntry>>
    /\ ref_suffixes = <<"a", "", "b">>

\* the suffix entry n ends up with: the one it was given, else the one written
FinalSuffix(n) ==
    IF ref_suffixes[n] # "" THEN ref_suffixes[n]
    ELSE IF HasSuffix(raw_refs[n][2]) THEN Ch(raw_refs[n][2], Len(raw_refs[n][2]))
    ELSE ""

\* C6: a letter given to an unsuffixed entry differs from the suffix of every
\* other entry of its (surname, base year) group, written or given.
C6_AssignedLetterUnused ==
    Extracted =>
        \A b \in Groups : \A n \in GroupOf(b) : \A m \in GroupOf(b) :
            (ref_suffixes[n] # "" /\ m # n) => FinalSuffix(m) # ref_suffixes[n]

\* C7: once the duplicates of (surname, base year) were given suffixes, the
\* citation (surname, base year) without a suffix is classified fuzzy.
C7_UnsuffixedCitationFuzzy ==
    (/\ pc = "matched"
     /\ ~HasSuffix(query[2])
     /\ \E n \in GroupOf(query) : ref_suffixes[n] # "")
        => result[1] = "fuzzy"

\* C9: every key of the reference set has a surname that is no noise word
\* and has at least 3 characters.
C9_RefSurnameNotNoise ==
    Extracted => \A k \in ref_set : ~is_noise(k[1]) /\ Len(k[1]) >= 3

\* C9, amended: every key of the reference set has a surname of at least 2
\* characters (the reference extractor filters no noise words).
C9_RefSurnameAtLeastTwo ==
    Extracted => \A k \in ref_set : Len(k[1]) >= 2

\* a reference whose surname is a noise word, one whose surname has 2 characters
C9_Witness ==
    /\ Extracted
    /\ \E k \in ref_set : lower(k[1]) \in NOISE_WORDS
    /\ \E k \in ref_set : Len(k[1]) = 2

(***************************************************************************)
(* Claims about the body of the document                                   *)
(***************************************************************************)
\* highlighted_spans of the paragraph visited last
highlighted_spans == body.spans

\* the keys highlight_body_citations handed to fuzzy_match_citation and
\* counted as exact, fuzzy or unmatched
Classified == SeqToSet(body.log)

\* s1 < e2 and s2 < e1
Intersect(a, b) == a[1] < b[2] /\ b[1] < a[2]

\* C3: after a paragraph was processed no two distinct entries of
\* highlighted_spans intersect, be it partly or one containing the other.
C3_NoOverlappingSpans ==
    \A n, m \in DOMAIN highlighted_spans :
        n # m => ~Intersect(highlighted_spans[n], highlighted_spans[m])

\* C4: once highlight_body_citations has returned, the keys it classified
\* are exactly the keys of citation_set.
C4_PassesAgree ==
    pc = "body_done" => Classified = citation_set

\* C8: every key of citation_set has a surname of at least 3 characters that
\* is, lower-cased, no member of NOISE_WORDS (the static list and the learned
\* words).
C8_CitationSurnameNotNoise ==
    \A k \in citation_set :
        /\ lower(k[1]) \notin NOISE_WORDS
        /\ Len(k[1]) >= 3

\* a learned word is in force, the text names it as an author and names a
\* lower-case noise word before a year; the other keys were extracted, one of
\* them re-capitalized, one inherited
C8_Witness ==
    /\ pc = "cited"
    /\ paragraphs # <<>>
    /\ \/ /\ "smith" \in NOISE_WORDS
          /\ "smith" \notin STATIC_NOISE_WORDS
          /\ paragraphs[1] = "Freud (1912a) and then Smith (2009)."
          /\ <<"Freud", "1912a">> \in citation_set
       \/ /\ paragraphs[1] = "stiles (2009) and therapy (2001)"
          /\ "therapy" \in NOISE_WORDS
          /\ citation_set = {<<"Stiles", "2009">>}
       \/ /\ paragraphs[1] = "(Gelso, 2009; 2014)"
          /\ <<"Gelso", "2014">> \in citation_set

IsUpperFirst(s) == s # "" /\ Ch(s, 1) \in UpperSet

\* C10: every key of citation_set, every key of ref_set and every key handed
\* to the matcher by highlight_body_citations has a surname whose first
\* character is upper-case.
C10_SurnameCapitalized ==
    \A k \in citation_set \cup ref_set \cup Classified : IsUpperFirst(k[1])

(***************************************************************************)
(* Claims about the text functions                                         *)
(***************************************************************************)
NoLineBreak(y) == \A i \in 1..Len(y) : Ch(y, i) # "\n"

EndsInTwoLetters(y) ==
    Len(y) >= 2 /\ Ch(y, Len(y)) \in LowerSet /\ Ch(y, Len(y) - 1) \in LowerSet

\* C11: strip_year_suffix(strip_year_suffix(y)) = strip_year_suffix(y) for
\* every string y, and strip_year_suffix(y) = y when y does not end in a
\* lowercase letter.
C11_StripIdempotent ==
    /\ pc = "stripped_again" => result[2] = result[1]
    /\ (pc \in {"stripped", "stripped_again"} /\ ~HasSuffix(query)) =>
           result[1] = query

\* C11, amended: strip_year_suffix removes one trailing lowercase letter;
\* applying it twice gives what applying it once gives for every y without
\* a line break that does not end in two lowercase letters, and y comes back
\* unchanged when it has no line break and no trailing lowercase letter.
C11_StripsOneLetter ==
    (pc \in {"stripped", "stripped_again"} /\ NoLineBreak(query)) =>
        /\ result[1] = BaseOf(query)
        /\ (pc = "stripped_again" /\ ~EndsInTwoLetters(query)) =>
               result[2] = result[1]

\* a year with a suffix was stripped twice
C11_Witness ==
    /\ pc = "stripped_again"
    /\ query = "1a"
    /\ result = <<"1", "1">>

\* the character normalize_for_highlight puts in the place of ch
OneToOne(ch) ==
    CASE ch \in {LSQUO, RSQUO} -> "'"
      [] ch \in {LDQUO, RDQUO} -> "\""
      [] ch \in {HYPHEN, NBHYPHEN, FIGDASH, NDASH} -> "-"
      [] OTHER -> ch

INVISIBLE == {RLM, LRM, ZWSP}

\* t without its characters in chars
RECURSIVE Without(_, _)
Without(t, chars) ==
    IF t = "" THEN ""
    ELSE (IF Ch(t, 1) \in chars THEN "" ELSE Ch(t, 1)) \o Without(Tail(t), chars)

\* C12: normalize_for_highlight keeps the length of the text, puts at each
\* position the character of the text or its one-to-one replacement and
\* leaves the invisible marks in place; normalize_text gives the same text
\* without the invisible marks, which is never longer than the input.
C12_LengthPreserving ==
    /\ pc \in {"for_highlight", "normalized"} =>
           /\ Len(result[1]) = Len(query)
           /\ \A i \in 1..Len(query) :
                  /\ Ch(result[1], i) = OneToOne(Ch(query, i))
                  /\ Ch(query, i) \in INVISIBLE => Ch(result[1], i) = Ch(query, i)
    /\ pc = "normalized" =>
           /\ result[2] = Without(result[1], INVISIBLE)
           /\ Len(result[2]) <= Len(query)

\* a text with a curly quote and a zero-width space went through both
C12_Witness ==
    /\ pc = "normalized"
    /\ query = LSQUO \o ZWSP
    /\ result = <<"'" \o ZWSP, "'">>

(***************************************************************************)
(* Claims about a whole run of main                                        *)
(***************************************************************************)
\* the match types of the keys of a block
types_of(block_citations) ==
    {fuzzy_match_citation(k[1], k[2], ref_set, ref_fuzzy_lookup)[1] :
        k \in SeqToSet(block_citations)}

\* unmatched before fuzzy before exact
WorstCase(types) ==
    IF "none" \in types THEN YELLOW_HIGHLIGHT
    ELSE IF "fuzzy" \in types THEN CYAN_HIGHLIGHT
    ELSE GREEN_HIGHLIGHT

\* C13: every block highlighted in the paragraph visited last got the worst
\* case of its keys: yellow if a key is unmatched, else cyan if a key is
\* fuzzy, green only if every key matches exactly.
C13_WorstCaseColor ==
    \A n \in DOMAIN body.blocks :
        body.blocks[n].color = WorstCase(types_of(body.blocks[n].block_citations))

\* a block of two keys, one exact and one fuzzy, was highlighted cyan
C13_Witness ==
    /\ paragraphs # <<>>
    /\ \E n \in DOMAIN body.blocks :
          /\ Len(body.blocks[n].block_citations) = 2
          /\ types_of(body.blocks[n].block_citations) = {"exact", "fuzzy"}
          /\ body.blocks[n].color = CYAN_HIGHLIGHT

\* the segments of the text between the parentheses of a block of the
\* paragraph visited last
stripped_each(pieces) == [n \in DOMAIN pieces |-> strip(pieces[n])]
segments_of(block) ==
    stripped_each(split(SubSeq(normalize_for_highlight(paragraphs[body.para]),
                               block.span_start + 2, block.span_end - 1), ";"))

years_in(segment) == SeqToSet(re_findall(RE_YEARS, segment))

\* the segment names an author the program takes for one
NamesAuthor(segment) ==
    /\ author_part_of(segment) # ""
    /\ ~is_noise(first_surname(author_part_of(segment)))

\* the key k comes from the segment j, which carries its own author
OwnAuthor(segments, j, k) ==
    /\ k[2] \in years_in(segments[j])
    /\ author_part_of(segments[j]) # ""
    /\ k[1] = first_surname(author_part_of(segments[j]))

\* the key k comes from the segment j of bare years, with the nearest
\* author before it in the parenthetical
InheritedAuthor(segments, j, k) ==
    /\ k[2] \in years_in(segments[j])
    /\ author_part_of(segments[j]) = ""
    /\ \E i \in 1..(j - 1) :
          /\ NamesAuthor(segments[i])
          /\ k[1] = first_surname(author_part_of(segments[i]))
          /\ \A m \in (i + 1)..(j - 1) : ~NamesAuthor(segments[m])

KeyedAsWritten(segments, k) ==
    \E j \in DOMAIN segments :
        OwnAuthor(segments, j, k) \/ InheritedAuthor(segments, j, k)

GelsoDocument == <<"(Gelso, 2009; 2014)", "References", "Gelso, C. (2009). Book.">>

\* C14: every key of a parenthetical block comes from a segment that names
\* the key's author, or from a segment of bare years that follows that
\* author in the same parenthetical with no other author between; and
\* '(Gelso, 2009; 2014)' gives (Gelso, 2009), exact, and (Gelso, 2014),
\* unmatched, against a bibliography of Gelso 2009.
C14_AuthorInheritance ==
    /\ \A n \in DOMAIN body.blocks :
          body.blocks[n].recognizer = "parenthetical" =>
              \A k \in SeqToSet(body.blocks[n].block_citations) :
                  KeyedAsWritten(segments_of(body.blocks[n]), k)
    /\ (paragraphs = GelsoDocument /\ body.para = 1) =>
          /\ body.log = <<<<"Gelso", "2009">>, <<"Gelso", "2014">>>>
          /\ body.matched = 1
          /\ body.unmatched_list = <<"Gelso (2014)">>

\* the records of learned['cross_matches']
Records == iterate(learned.cross_matches)

\* the pair a is the citation and the reference of the record cm
Corresponds(a, cm) ==
    /\ cm.t = "dict"
    /\ lower(a[1]) = author_of_record(cm) \o " ("
                     \o dict_get(cm, "cite_year", JStr("")).v \o ")"
    /\ lower(a[2]) = author_of_record(cm) \o " ("
                     \o dict_get(cm, "ref_year", JStr("")).v \o ")"

\* C16: every pair apply_learned_cross_matches returned is a citation of
\* unmatched_list and a reference of uncited_list that are the two sides of
\* one stored record.
C16_NeverInventsMatch ==
    pc = "adapted" =>
        \A n \in DOMAIN report.auto_matches :
            /\ report.auto_matches[n][1] \in SeqToSet(report.unmatched_list)
            /\ report.auto_matches[n][2] \in SeqToSet(report.uncited_list)
            /\ \E m \in DOMAIN Records : Corresponds(report.auto_matches[n], Records[m])

\* a record written in capitals has paired the unmatched citation with the
\* uncited reference
C16_Witness ==
    /\ pc = "adapted"
    /\ paragraphs # <<>>
    /\ report.auto_matches =
           <<<<"Smith (2010)", "Smith (2009)", "learned from previous Opus verification">>>>
    /\ Len(Records) = 1

\* C17: after the loop over auto_matches neither side of a pair is in the
\* unmatched lists, both are in the fuzzy lists, and the counters are the
\* lengths of the lists.
C17_BothSidesReclassified ==
    pc \in {"reclassified", "done"} =>
        /\ \A n \in DOMAIN report.auto_matches :
              /\ report.auto_matches[n][1] \notin SeqToSet(report.unmatched_list)
              /\ report.auto_matches[n][2] \notin SeqToSet(report.uncited_list)
              /\ report.auto_matches[n][1] \in SeqToSet(report.fuzzy_cite_list)
              /\ report.auto_matches[n][2] \in SeqToSet(report.fuzzy_ref_list)
        /\ report.body_unmatched = Len(report.unmatched_list)
        /\ report.ref_uncited = Len(report.uncited_list)

\* C19: whatever the store file holds, no step of the run ends with an
\* exception.
C19_LoadFailsSoft ==
    /\ error = ""
    /\ pc # "aborted"

NoHeading == \A n \in DOMAIN paragraphs : strip(paragraphs[n]) \notin HEADINGS

\* the steps after which ref_para_idx, ref_set, the body counts and the
\* reference counts are known
HEADING_SOUGHT == {"located", "cited", "extracted", "indexed", "body_done",
                   "refs_done", "adapted", "reclassified", "done"}
REFERENCES_EXTRACTED == HEADING_SOUGHT \ {"located", "cited"}
BODY_COUNTED == REFERENCES_EXTRACTED \ {"extracted", "indexed"}
REFERENCES_COUNTED == BODY_COUNTED \ {"body_done"}

words_of(values) == {lower(values[n].v) : n \in DOMAIN values}
LearnedWords == words_of(iterate(learned.noise_words))

\* C18: in the second run, once the learned words are applied, NOISE_WORDS
\* is the static list and the words of the store of this run.
C18_NoiseWordsOfThisRun ==
    (run = 2 /\ pc \in HEADING_SOUGHT \cup {"loaded"}) =>
        NOISE_WORDS = STATIC_NOISE_WORDS \cup LearnedWords

(***************************************************************************)
(* Claims about the batches of ref_verify                                  *)
(***************************************************************************)
\* the batches that hold the reference with the number r
BatchesHolding(r) ==
    {k \in DOMAIN result.batches :
        \E j \in DOMAIN result.batches[k].references :
            result.batches[k].references[j].num = r}

\* C30: every reference number is in exactly one batch, each batch starts
\* where the one before it ended, holds between 1 and batch_size references
\* with count = ref_end - ref_start + 1, and num_batches is the number of
\* references divided by the batch size, rounded up.
C30_BatchesPartition ==
    pc = "batched" =>
        /\ \A r \in 1..query.n : Cardinality(BatchesHolding(r)) = 1
        /\ \A k \in DOMAIN result.batches :
              /\ result.batches[k].count \in 1..query.batch_size
              /\ result.batches[k].count = Len(result.batches[k].references)
              /\ result.batches[k].count =
                     result.batches[k].ref_end - result.batches[k].ref_start + 1
              /\ k > 1 => result.batches[k].ref_start = result.batches[k - 1].ref_end + 1
              /\ k = 1 => result.batches[k].ref_start = 1
        /\ result.num_batches = Len(result.batches)
        /\ result.num_batches * query.batch_size >= query.n
        /\ (result.num_batches - 1) * query.batch_size < query.n

\* five references in batches of two: the third batch holds the fifth alone
C30_Witness ==
    /\ pc = "batched"
    /\ query = [n |-> 5, batch_size |-> 2]
    /\ Len(result.batches) = 3
    /\ result.batches[3].ref_start = 5
    /\ result.batches[3].count = 1

(***************************************************************************)
(* Claims about a work listed many times                                   *)
(***************************************************************************)
\* four digits, then at most one lowercase letter
WellFormedYear(y) ==
    /\ Len(y) \in {4, 5}
    /\ \A i \in 1..4 : Ch(y, i) \in DigitSet
    /\ Len(y) = 5 => Ch(y, 5) \in LowerSet

\* C29: every year of the reference set is four digits followed by at most
\* one lowercase letter, however many entries share a surname and a year.
C29_YearsWellFormed ==
    pc = "extracted" => \A k \in ref_set : WellFormedYear(k[2])

(***************************************************************************)
(* Claims about the reference passes                                       *)
(***************************************************************************)
\* the paragraphs after the heading
ReferenceParagraphs == (ref_para_idx + 2)..Len(paragraphs)

\* the normalized text of paragraph p shows a year in parentheses
ShowsYear(p) == re_search(RE_REF_YEAR, normalize_text(strip(paragraphs[p]))).s # 0

\* paragraph p is as it was loaded: one run, not highlighted
Untouched(p) == runs[p] = <<a_run(paragraphs[p], "", NO_HIGHLIGHT)>>

\* C21: a paragraph after the heading that shows no year in parentheses
\* gives no entry of raw_refs and so no key, is counted in none of the three
\* reference counters and keeps its runs; no step ends with an exception on
\* its account.
C21_YearlessEntrySkipped ==
    /\ pc \in REFERENCES_EXTRACTED =>
          \A n \in DOMAIN raw_refs : ShowsYear(raw_refs[n][3] + 1)
    /\ pc \in REFERENCES_COUNTED =>
          /\ \A p \in ReferenceParagraphs : ~ShowsYear(p) => Untouched(p)
          /\ report.ref_cited + report.ref_fuzzy + report.ref_uncited
                 <= Cardinality({p \in ReferenceParagraphs : ShowsYear(p)})
    /\ store \in UsableStores => pc # "aborted"

\* the bibliography held an entry without a year next to two entries with
\* one; two were counted and the undated entry kept its run
C21_Witness ==
    /\ pc = "refs_done"
    /\ paragraphs # <<>>
    /\ \E p \in ReferenceParagraphs : ~ShowsYear(p) /\ Untouched(p)
    /\ \E p \in ReferenceParagraphs : ShowsYear(p) /\ ~Untouched(p)
    /\ report.ref_cited + report.ref_fuzzy + report.ref_uncited = 2
    /\ Len(raw_refs) = 2

\* highlight_references classifies paragraph p: it shows a year and a surname
ClassifiedEntry(p) ==
    /\ ShowsYear(p)
    /\ reference_key_of(strip(paragraphs[p]))[1] # ""

\* the end of the first year in parentheses of the text, 0 if it has none
FirstYearEnd(text, m) == IF m.s = 0 THEN 0 ELSE m.e - 1

\* the runs of paragraph p that lie before the offset stop are highlighted
\* and no other is
MarkedUpTo(p, stop) ==
    \A k \in DOMAIN runs[p] :
        (runs[p][k].highlight # NO_HIGHLIGHT) <=>
            (run_start(runs[p], k) + Len(runs[p][k].text) <= stop)

\* C23: of every classified entry the part up to the end of its first year
\* in parentheses is highlighted and what follows is not.
C23_StopsAfterFirstYear ==
    pc \in REFERENCES_COUNTED =>
        \A p \in ReferenceParagraphs :
            ClassifiedEntry(p) =>
                /\ re_search(RE_YEAR_PAREN, paragraphs[p]).s # 0
                /\ MarkedUpTo(p, FirstYearEnd(paragraphs[p],
                                              re_search(RE_YEAR_PAREN, paragraphs[p])))

(***************************************************************************)
(* Claims about highlight_span_in_paragraph                                *)
(***************************************************************************)
\* the highlight of each character of the runs, in order
RECURSIVE char_highlights(_)
char_highlights(rs) ==
    IF rs = <<>> THEN <<>>
    ELSE [i \in 1..Len(rs[1].text) |-> rs[1].highlight] \o char_highlights(Tail(rs))

\* C22: a call with char_start = char_end leaves the runs of the paragraph
\* as they were: as many runs, each with its text and its highlight.
C22_EmptySpanNoOp ==
    (query # None /\ query.char_start = query.char_end) => runs[1] = result

\* after a call the characters at the offsets from char_start up to
\* char_end, which is left out, have the color and every other character
\* has the highlight it had
MarkedExactly(before, after) ==
    /\ Len(after) = Len(before)
    /\ \A i \in DOMAIN after :
           after[i] = IF query.char_start < i /\ i <= query.char_end
                      THEN query.color_index ELSE before[i]

\* C24: a call with char_start < char_end highlights the characters of the
\* span and changes the highlight of no other character.
C24_MarksExactlyTheSpan ==
    (query # None /\ query.char_start < query.char_end) =>
        MarkedExactly(char_highlights(result), char_highlights(runs[1]))

\* C25: after any calls the texts of the runs, put together, are the text
\* the paragraph had when it was loaded.
C25_TextUnchanged ==
    para_text(runs[1]) = paragraphs[1]

(***************************************************************************)
(* Claims about the order of the recognizers                               *)
(***************************************************************************)
\* the matches of all recognizers in the body paragraph visited last
LastCandidates == span_candidates(normalize_for_highlight(paragraphs[body.para]))

\* the place of a recognizer in the order 4a, 4b, parenthetical, narrative,
\* possessive, and-colleagues, lowercase
Priority(recognizer) ==
    CASE recognizer = "bracket"       -> 1
      [] recognizer = "bracket_block" -> 2
      [] recognizer = "parenthetical" -> 3
      [] recognizer = "narrative"     -> 4
      [] recognizer = "possessive"    -> 5
      [] recognizer = "colleagues"    -> 6
      [] recognizer = "lowercase"     -> 7

\* the start or the end of the span falls inside the span of the block
Inside(block, span_start, span_end) ==
    \/ block.span_start <= span_start /\ span_start < block.span_end
    \/ block.span_start < span_end /\ span_end <= block.span_end

\* the accepted block a candidate became, if it was accepted
BlockOf(cand) ==
    {n \in DOMAIN body.blocks :
        /\ body.blocks[n].recognizer = cand.recognizer
        /\ body.blocks[n].span_start = cand.start
        /\ body.blocks[n].span_end = cand.end}

\* the blocks accepted before the candidate was visited: those of earlier
\* recognizers and those of its own recognizer that start before it
AcceptedBefore(cand) ==
    {n \in DOMAIN body.blocks :
        \/ Priority(body.blocks[n].recognizer) < Priority(cand.recognizer)
        \/ /\ body.blocks[n].recognizer = cand.recognizer
           /\ body.blocks[n].span_start < cand.start}

Discarded(cand) ==
    \E n \in AcceptedBefore(cand) : Inside(body.blocks[n], cand.start, cand.end)

RECURSIVE keys_of_blocks(_)
keys_of_blocks(blocks) ==
    IF blocks = <<>> THEN <<>>
    ELSE blocks[1].block_citations \o keys_of_blocks(Tail(blocks))

\* C26: each pass of the paragraph loop leaves the accepted blocks in the
\* order of the recognizers; a match is accepted exactly when it yields a
\* key and neither its start nor its end falls inside a span accepted
\* before it, whatever the later recognizers find; the pass hands to the
\* matcher and counts the keys of the accepted blocks and no others, and
\* only accepted blocks claim a span.
PriorityDecides(cands) ==
    /\ \A i, j \in DOMAIN body.blocks :
           i < j => Priority(body.blocks[i].recognizer)
                        <= Priority(body.blocks[j].recognizer)
    /\ \A n \in DOMAIN cands :
           BlockOf(cands[n]) # {}
               <=> cands[n].block_citations # <<>> /\ ~Discarded(cands[n])
    /\ \A n \in DOMAIN body.blocks :
           \E c \in DOMAIN cands :
               /\ n \in BlockOf(cands[c])
               /\ body.blocks[n].block_citations = cands[c].block_citations
    /\ body.spans = [n \in DOMAIN body.blocks |->
                        <<body.blocks[n].span_start, body.blocks[n].span_end>>]

\* the paragraph visited last, if it has text
LastParagraphDecided ==
    body.para >= 1 /\ strip(normalize_for_highlight(paragraphs[body.para])) # "" =>
        LET cands == LastCandidates IN PriorityDecides(cands)

counted(h) == h.matched + h.fuzzy_matched + h.unmatched

\* a pass over a paragraph with text logs and counts the keys of its
\* accepted blocks
AcceptedKeysCounted ==
    (body'.para = body.para + 1
     /\ strip(normalize_for_highlight(paragraphs[body.para + 1])) # "") =>
        /\ body'.log = body.log \o keys_of_blocks(body'.blocks)
        /\ counted(body') = counted(body) + Len(keys_of_blocks(body'.blocks))

C26_PriorityDecidesOverlap ==
    []LastParagraphDecided /\ [][AcceptedKeysCounted]_vars

\* a match of the and-colleagues recognizer that yields a key was
\* discarded, since it touches the span of an accepted block
DiscardedWithKey(cands) ==
    \E n \in DOMAIN cands :
        /\ cands[n].block_citations # <<>>
        /\ cands[n].recognizer = "colleagues"
        /\ Discarded(cands[n])
        /\ BlockOf(cands[n]) = {}

C26_Witness ==
    /\ body.para >= 1
    /\ body.blocks # <<>>
    /\ LET cands == LastCandidates IN DiscardedWithKey(cands)

(***************************************************************************)
(* Claims about the counters                                               *)
(***************************************************************************)
BodyConsistent(r) ==
    /\ r.body_unmatched = Len(r.unmatched_list)
    /\ r.body_fuzzy = Len(r.fuzzy_cite_list)

ReferencesConsistent(r) ==
    /\ r.ref_uncited = Len(r.uncited_list)
    /\ r.ref_fuzzy = Len(r.fuzzy_ref_list)

NeverNegative(r) ==
    /\ r.body_matched >= 0 /\ r.body_fuzzy >= 0 /\ r.body_unmatched >= 0
    /\ r.ref_cited >= 0 /\ r.ref_fuzzy >= 0 /\ r.ref_uncited >= 0

body_total(r) == r.body_matched + r.body_fuzzy + r.body_unmatched
ref_total(r) == r.ref_cited + r.ref_fuzzy + r.ref_uncited

\* the report after the first k passes of the loop over auto_matches
after_steps(r, k) == reclassify([r EXCEPT !.auto_matches = SubSeq(@, 1, k)], 1)

ConsistentAfter(r, after) ==
    /\ BodyConsistent(after)
    /\ ReferencesConsistent(after)
    /\ NeverNegative(after)
    /\ body_total(after) = body_total(r)
    /\ ref_total(after) = ref_total(r)

\* C28: the counters are the lengths of their lists once
\* highlight_body_citations has returned, once highlight_references has
\* returned and after each pass of the loop over auto_matches; the loop
\* keeps both totals and no counter falls below zero.
C28_CountersMatchLists ==
    /\ pc \in BODY_COUNTED => BodyConsistent(report)
    /\ pc \in REFERENCES_COUNTED =>
           ReferencesConsistent(report) /\ NeverNegative(report)
    /\ pc = "adapted" =>
           \A k \in 0..Len(report.auto_matches) :
               ConsistentAfter(report, after_steps(report, k))

\* the loop has run twice for one pair: the first pass moved the reference
\* and left ref_uncited at zero, the second found it gone
C28_Witness ==
    /\ pc = "reclassified"
    /\ Len(report.auto_matches) = 2
    /\ report.auto_matches[1] = report.auto_matches[2]
    /\ report.auto_matches[1][2] \in SeqToSet(report.fuzzy_ref_list)
    /\ report.ref_uncited = 0
    /\ report.ref_fuzzy = 1
    /\ report.body_fuzzy = Len(report.fuzzy_cite_list)

====
